---------------------------- MODULE Spec2Model ----------------------------
(***************************************************************************)
(* Battleship: the shared game engine (createBoard, placeShip,             *)
(* resolveShot, checkWin) and the room/session coordinator of the          *)
(* Socket.IO server (create-room, join-room, place-ships, fire,            *)
(* disconnect, reconnect-to-room, the forfeit timers and the idle sweep).  *)
(*                                                                         *)
(* Room objects live in a heap: `rooms` maps a code to a Room object, and  *)
(* a forfeit timer's closure keeps its own reference to the Room object it *)
(* was started for, whether or not `rooms` still holds that object.        *)
(***************************************************************************)
EXTENDS Integers, Sequences, FiniteSets, TLC

---------------------------------------------------------------------------
(* Constants of the program *)

BOARD_SIZE == 10

SHIPS ==
  << [name |-> "Carrier",    size |-> 5],
     [name |-> "Battleship", size |-> 4],
     [name |-> "Cruiser",    size |-> 3],
     [name |-> "Submarine",  size |-> 3],
     [name |-> "Destroyer",  size |-> 2] >>

\* The clock counts in units of one grace window: the order of the two
\* windows (idle window longer than the grace window) is the program's.
RECONNECT_TIMEOUT_MS == 1
IDLE_TIMEOUT_MS == 2

\* Date.now().  Timestamps are kept relative to the present: the present is
\* 0, and when time passes (Tick) every stored timestamp moves one unit into
\* the past.
now == 0

---------------------------------------------------------------------------
(* Bounds of the model *)

\* The connections (socket ids) and the room codes generateRoomCode draws.
SocketList == <<"s1", "s2">>
CodeList == <<"AAAAAA", "BBBBBB">>

Sockets == {SocketList[i] : i \in 1 .. Len(SocketList)}

\* What a client may send as a room code: a code, a lower-case spelling of
\* one, or nothing.
CodeInputs == {"AAAAAA", "aaaaaa", ""}

\* The codes of reconnect-to-room: a socket that lost its transport comes
\* back with its socket id only to send reconnect-to-room with a code, the
\* one of its room, a lower-case spelling of it, or another one.
ReconnectInputs == {"AAAAAA", "aaaaaa", "BBBBBB"}

\* The codes the random source draws for one create-room, in order.
DrawInputs == {<<"AAAAAA">>}

\* The draws and the codes of clients where two rooms are open at a time.
RoomDrawInputs == {<<"AAAAAA", "BBBBBB">>}
RoomCodeInputs == {"AAAAAA", "BBBBBB"}

\* The cells clients fire at: one cell of the board and one outside it.
FireInputs == {<<0, 0>>, <<10, 0>>}

\* The cells clients fire at in a game played to its end: five cells of the
\* board and one outside it.
GameFireInputs == {<<0, 0>>, <<1, 0>>, <<2, 0>>, <<3, 0>>, <<4, 2>>, <<10, 0>>}

---------------------------------------------------------------------------
(* Maps (JavaScript Map): functions with a finite domain *)

Has(m, k) == k \in DOMAIN m

MapSet(m, k, v) == [x \in DOMAIN m \cup {k} |-> IF x = k THEN v ELSE m[x]]

MapDelete(m, k) == [x \in DOMAIN m \ {k} |-> m[x]]

MapDeleteAll(m, ks) == [x \in DOMAIN m \ ks |-> m[x]]

EmptyMap == [x \in {} |-> x]

Min(S) == CHOOSE x \in S : \A y \in S : x <= y

---------------------------------------------------------------------------
(* Game engine: gameEngine.ts *)

\* Cell.ship is a ship id or null; ship ids are tuples, null is the empty one.
NullShip == << >>

\* ShotResult.shipName is absent on a miss.
NoName == "undefined"

\* A board is kept as the map of its occupied cells to their ship ids and
\* the set of its cells that were fired at: board[row][col] of the program
\* is CellAt(board, <<row, col>>).
createBoard == [ship |-> EmptyMap, hit |-> {}]

CellAt(board, cell) ==
  [ship |-> IF cell \in DOMAIN board.ship THEN board.ship[cell] ELSE NullShip,
   hit |-> cell \in board.hit]

\* The cells of a ship of the given size from (row, col), in loop order.
ShipPath(size, row, col, orientation) ==
  [i \in 1 .. size |->
     << IF orientation = "vertical" THEN row + (i - 1) ELSE row,
        IF orientation = "horizontal" THEN col + (i - 1) ELSE col >>]

\* shipId is `${ship.name}-${Date.now()}-${random}`: the name and a token
\* (rnd) that stands for the timestamp and the random suffix.
\* A placement that gives every ship the same id.
placeShipOkOneId(board, ship, row, col, orientation, rnd) ==
  LET cells == ShipPath(ship.size, row, col, orientation)
      shipId == <<"ship", 0>>
      path == {cells[i] : i \in 1 .. Len(cells)}
  IN [valid |-> TRUE,
      error |-> "",
      board |-> [board EXCEPT !.ship =
                  [c \in DOMAIN board.ship \cup path |->
                     IF c \in path THEN shipId ELSE board.ship[c]]],
      ship |-> [id |-> shipId, name |-> ship.name, size |-> ship.size,
                cells |-> cells, sunk |-> FALSE]]

placeShipOk(board, ship, row, col, orientation, rnd) ==
  LET cells == ShipPath(ship.size, row, col, orientation)
      shipId == <<ship.name, rnd>>
      path == {cells[i] : i \in 1 .. Len(cells)}
  IN [valid |-> TRUE,
      error |-> "",
      board |-> [board EXCEPT !.ship =
                  [c \in DOMAIN board.ship \cup path |->
                     IF c \in path THEN shipId ELSE board.ship[c]]],
      ship |-> [id |-> shipId, name |-> ship.name, size |-> ship.size,
                cells |-> cells, sunk |-> FALSE]]

\* A rejection carries neither a board nor a ship.
PlacementError(msg) == [valid |-> FALSE, error |-> msg]

\* A placeShip that looks for an overlap before it looks at the edge.
placeShipOverlapFirst(board, ship, row, col, orientation, rnd) ==
  IF row < 0 \/ row >= BOARD_SIZE \/ col < 0 \/ col >= BOARD_SIZE
  THEN PlacementError("Starting position is out of bounds")
  ELSE
    LET endRow == IF orientation = "vertical" THEN row + ship.size - 1 ELSE row
        endCol == IF orientation = "horizontal" THEN col + ship.size - 1 ELSE col
        cells == ShipPath(ship.size, row, col, orientation)
    IN IF \E i \in 1 .. Len(cells) : CellAt(board, cells[i]).ship # NullShip
       THEN PlacementError("Ship overlaps with another ship")
       ELSE IF endRow >= BOARD_SIZE \/ endCol >= BOARD_SIZE
       THEN PlacementError("Ship extends beyond board boundaries")
       ELSE placeShipOk(board, ship, row, col, orientation, rnd)

\* A placeShip that does not look for an overlap.
placeShipUnchecked(board, ship, row, col, orientation, rnd) ==
  IF row < 0 \/ row >= BOARD_SIZE \/ col < 0 \/ col >= BOARD_SIZE
  THEN PlacementError("Starting position is out of bounds")
  ELSE
    LET endRow == IF orientation = "vertical" THEN row + ship.size - 1 ELSE row
        endCol == IF orientation = "horizontal" THEN col + ship.size - 1 ELSE col
    IN IF endRow >= BOARD_SIZE \/ endCol >= BOARD_SIZE
       THEN PlacementError("Ship extends beyond board boundaries")
       ELSE placeShipOk(board, ship, row, col, orientation, rnd)

placeShip(board, ship, row, col, orientation, rnd) ==
  IF row < 0 \/ row >= BOARD_SIZE \/ col < 0 \/ col >= BOARD_SIZE
  THEN PlacementError("Starting position is out of bounds")
  ELSE
    LET endRow == IF orientation = "vertical" THEN row + ship.size - 1 ELSE row
        endCol == IF orientation = "horizontal" THEN col + ship.size - 1 ELSE col
    IN IF endRow >= BOARD_SIZE \/ endCol >= BOARD_SIZE
       THEN PlacementError("Ship extends beyond board boundaries")
       ELSE
         LET cells == ShipPath(ship.size, row, col, orientation)
         IN IF \E i \in 1 .. Len(cells) : CellAt(board, cells[i]).ship # NullShip
            THEN PlacementError("Ship overlaps with another ship")
            ELSE placeShipOk(board, ship, row, col, orientation, rnd)

\* The first ship of the list with the given id (Array.find), 0 if none.
FindShip(ships, id) ==
  LET I == {i \in 1 .. Len(ships) : ships[i].id = id}
  IN IF I = {} THEN 0 ELSE Min(I)

ShotThrow(board, ships, msg) ==
  [threw |-> TRUE, message |-> msg,
   result |-> [hit |-> FALSE, sunk |-> FALSE, shipName |-> NoName,
               alreadyFired |-> FALSE],
   board |-> board, ships |-> ships]

\* A resolveShot that never reports a cell as fired at before.
ShotReturnAsNew(hit, sunk, shipName, alreadyFired, board, ships) ==
  [threw |-> FALSE, message |-> "",
   result |-> [hit |-> hit, sunk |-> sunk, shipName |-> shipName,
               alreadyFired |-> FALSE],
   board |-> board, ships |-> ships]

ShotReturn(hit, sunk, shipName, alreadyFired, board, ships) ==
  [threw |-> FALSE, message |-> "",
   result |-> [hit |-> hit, sunk |-> sunk, shipName |-> shipName,
               alreadyFired |-> alreadyFired],
   board |-> board, ships |-> ships]

\* A resolveShot that takes a ship for sunk at its first hit.
resolveShotSunkAtHit(board, ships, row, col) ==
  IF row < 0 \/ row >= BOARD_SIZE \/ col < 0 \/ col >= BOARD_SIZE
  THEN ShotThrow(board, ships, "Shot coordinates are out of bounds")
  ELSE
    LET cell == CellAt(board, <<row, col>>)
        newBoard == [board EXCEPT !.hit = @ \cup {<<row, col>>}]
        k == FindShip(ships, cell.ship)
    IN IF cell.hit
       THEN ShotReturn(FALSE, FALSE, NoName, TRUE, board, ships)
       ELSE IF cell.ship = NullShip
       THEN ShotReturn(FALSE, FALSE, NoName, FALSE, newBoard, ships)
       ELSE IF k = 0
       THEN ShotThrow(board, ships, "Ship not found in ships array")
       ELSE ShotReturn(TRUE, TRUE, ships[k].name, FALSE, newBoard,
                       [ships EXCEPT ![k].sunk = TRUE])

resolveShot(board, ships, row, col) ==
  IF row < 0 \/ row >= BOARD_SIZE \/ col < 0 \/ col >= BOARD_SIZE
  THEN ShotThrow(board, ships, "Shot coordinates are out of bounds")
  ELSE
    LET cell == CellAt(board, <<row, col>>)
    IN IF cell.hit
       THEN ShotReturn(FALSE, FALSE, NoName, TRUE, board, ships)
       ELSE
         LET newBoard == [board EXCEPT !.hit = @ \cup {<<row, col>>}]
             isHit == cell.ship # NullShip
         IN IF ~isHit
            THEN ShotReturn(FALSE, FALSE, NoName, FALSE, newBoard, ships)
            ELSE
              LET k == FindShip(ships, cell.ship)
              IN IF k = 0
                 THEN ShotThrow(board, ships, "Ship not found in ships array")
                 ELSE
                   LET hitShip == ships[k]
                       allCellsHit ==
                         \A i \in 1 .. Len(hitShip.cells) :
                           CellAt(newBoard, hitShip.cells[i]).hit
                       newShips ==
                         IF allCellsHit
                         THEN [ships EXCEPT ![k].sunk = TRUE]
                         ELSE ships
                   IN ShotReturn(TRUE, allCellsHit, hitShip.name, FALSE,
                                 newBoard, newShips)

\* A win check that is content with one sunk ship.
checkWinSome(ships) == \E i \in 1 .. Len(ships) : ships[i].sunk

checkWin(ships) ==
  Len(ships) > 0 /\ \A i \in 1 .. Len(ships) : ships[i].sunk

---------------------------------------------------------------------------
(* What clients submit to place-ships *)

P(name, size, row, col, orientation) ==
  [ship |-> [name |-> name, size |-> size], row |-> row, col |-> col,
   orientation |-> orientation]

\* The five standard ships, the Destroyer on (0,0),(1,0).
StandardFleet ==
  << P("Carrier", 5, 0, 1, "horizontal"), P("Battleship", 4, 1, 1, "horizontal"),
     P("Cruiser", 3, 2, 0, "horizontal"), P("Submarine", 3, 3, 0, "horizontal"),
     P("Destroyer", 2, 0, 0, "vertical") >>

\* Five placements with sizes of the client's choosing.
OneCellFleet ==
  << P("Carrier", 1, 0, 0, "horizontal"), P("Battleship", 1, 1, 0, "horizontal"),
     P("Cruiser", 1, 2, 0, "vertical"), P("Submarine", 1, 3, 0, "horizontal"),
     P("Destroyer", 1, 4, 2, "vertical") >>

\* The fifth placement overlaps the first.
OverlapFleet == [StandardFleet EXCEPT ![5] = P("Destroyer", 2, 0, 1, "vertical")]

\* The third placement leaves the board.
ExceedsFleet == [StandardFleet EXCEPT ![3] = P("Cruiser", 3, 2, 8, "horizontal")]

\* The first placement starts outside the board.
OutsideFleet == [StandardFleet EXCEPT ![1] = P("Carrier", 5, 10, 0, "horizontal")]

\* Four valid placements only.
ShortFleet == SubSeq(StandardFleet, 1, 4)

PlacementInputs == {StandardFleet, ShortFleet}

GamePlacementInputs ==
  {StandardFleet, OneCellFleet, OverlapFleet, ExceedsFleet, OutsideFleet, ShortFleet}

---------------------------------------------------------------------------
(* Coordinator state: server/src/index.ts *)

VARIABLES
  rooms,                \* Map code -> Room (a reference into heap)
  heap,                 \* the Room objects
  playerToRoom,         \* Map socketId -> roomCode
  disconnectedPlayers,  \* Map socketId -> pending forfeit timer
  connected,            \* the sockets whose transport is up
  ioRooms,              \* socket.join(code): <<socketId, code>>
  emitted,              \* the events the last handler emitted, in order
  localBoard,           \* a caller of placeShip: its board (`board`)
  localShips,           \* ... the ships it has placed (`ships`)
  attempts,             \* ... the tries for the ship it is placing
  lastCall,             \* ... its last call of the engine and what came back
  restarted,            \* ... placeShipsRandomly runs in a call of itself
  aiState,              \* AIOpponent.state: mode, targetQueue, lastHit, ...
  shotHistory           \* the shot history the caller of getNextShot keeps

vars == <<rooms, heap, playerToRoom, disconnectedPlayers, connected, ioRooms,
          emitted, localBoard, localShips, attempts, lastCall, restarted,
          aiState, shotHistory>>

\* The state of the callers of the engine, which no handler of the
\* coordinator touches.
engineVars == <<localBoard, localShips, attempts, lastCall, restarted,
                aiState, shotHistory>>

\* The state of the strategy of the AI and of its caller.
strategyVars == <<aiState, shotHistory>>

\* resetState, and the state the constructor of AIOpponent sets.  A cell
\* is <<row, col>>; lastHit is null (<< >>) or a cell.
resetState ==
  [mode |-> "hunt", targetQueue |-> << >>, lastHit |-> << >>,
   currentShipHits |-> << >>, lastProcessedShotCount |-> 0]

\* The state of the coordinator.
serverVars == <<rooms, heap, playerToRoom, disconnectedPlayers, connected,
                ioRooms, emitted>>

\* No call of the engine was made yet.
NoCall == [op |-> "none"]

IndexOf(list, x) == CHOOSE i \in 1 .. Len(list) : list[i] = x

\* The heap address of the Room object that rooms holds for a code.
LiveOid(code) == IndexOf(CodeList, code)

\* A Room object that rooms no longer holds is reachable only from the
\* closures of forfeit timers, which read and write its players' socket ids
\* and write its phase: its other fields are dead and are cleared.
Detached(room) ==
  [code |-> room.code,
   players |-> [i \in 1 .. Len(room.players) |->
                  [socketId |-> room.players[i].socketId, board |-> createBoard,
                   ships |-> << >>, ready |-> FALSE]],
   phase |-> "finished", currentTurn |-> "", lastActivity |-> now]

\* The heap after a handler: the Room objects that rooms or a pending timer
\* still reference.  An object that rooms dropped moves to an address past
\* the live ones, named after the first socket whose timer holds it.
Holders(dp, o) == {s \in DOMAIN dp : dp[s].room = o}

Address(rms, dp, o) ==
  IF \E c \in DOMAIN rms : rms[c] = o
  THEN o
  ELSE Len(CodeList) + Min({IndexOf(SocketList, s) : s \in Holders(dp, o)})

Collect(rms, h, dp) ==
  LET live == {rms[c] : c \in DOMAIN rms}
      used == live \cup {dp[s].room : s \in DOMAIN dp}
      at(n) == CHOOSE o \in used : Address(rms, dp, o) = n
  IN [heap |-> [n \in {Address(rms, dp, o) : o \in used} |->
                  IF at(n) \in live THEN h[at(n)] ELSE Detached(h[at(n)])],
      timers |-> [s \in DOMAIN dp |->
                    [dp[s] EXCEPT !.room = Address(rms, dp, @)]]]

\* The handler leaves rooms, the Room objects and the timers as given.
Commit(rms, h, dp) ==
  /\ rooms' = rms
  /\ heap' = Collect(rms, h, dp).heap
  /\ disconnectedPlayers' = Collect(rms, h, dp).timers

Ev(to, name, data) == <<to, name, data>>

NoData == [none |-> TRUE]

ErrorEv(s, msg) == Ev(s, "error", [message |-> msg])

\* A createPlayer whose player is ready from the start.
createPlayerReady(socketId) ==
  [socketId |-> socketId, board |-> createBoard, ships |-> << >>, ready |-> TRUE]

createPlayer(socketId) ==
  [socketId |-> socketId, board |-> createBoard, ships |-> << >>, ready |-> FALSE]

\* Room.createdAt is written once and never read: it is left out.
NewRoom(code, player) ==
  [code |-> code, players |-> <<player>>, phase |-> "waiting",
   currentTurn |-> "", lastActivity |-> now]

\* A generateRoomCode that does not look whether the code is in use.
generateRoomCodeUnchecked(draws) == IF draws = << >> THEN "" ELSE Head(draws)

\* generateRoomCode with the codes the random source draws, in order: it
\* draws again while the code drawn is the key of a room ("" when the draws
\* given run out).
RECURSIVE generateRoomCode(_)
generateRoomCode(draws) ==
  IF draws = << >> THEN ""
  ELSE IF Has(rooms, Head(draws)) THEN generateRoomCode(Tail(draws))
  ELSE Head(draws)

toUpperCase(code) == IF code = "aaaaaa" THEN "AAAAAA" ELSE code

\* updateRoomActivity(roomCode) where the handlers call it: the room of that
\* code is the Room object the handler has just fetched.
updateRoomActivity(room) == [room EXCEPT !.lastActivity = now]

\* Index of the first player with this socket id, 0 if none.
FindPlayer(room, socketId) ==
  LET I == {i \in 1 .. Len(room.players) : room.players[i].socketId = socketId}
  IN IF I = {} THEN 0 ELSE Min(I)

\* Index of the first player with another socket id, 0 if none (null).
getOpponent(room, socketId) ==
  LET I == {i \in 1 .. Len(room.players) : room.players[i].socketId # socketId}
  IN IF I = {} THEN 0 ELSE Min(I)

Init ==
  /\ rooms = EmptyMap
  /\ heap = EmptyMap
  /\ playerToRoom = EmptyMap
  /\ disconnectedPlayers = EmptyMap
  /\ connected = Sockets
  /\ ioRooms = {}
  /\ emitted = << >>
  /\ localBoard = createBoard
  /\ localShips = << >>
  /\ attempts = 0
  /\ lastCall = NoCall
  /\ restarted = FALSE
  /\ aiState = resetState
  /\ shotHistory = << >>

\* A handler that answers with an error and returns.
Reject(s, msg) ==
  /\ emitted' = << ErrorEv(s, msg) >>
  /\ UNCHANGED <<rooms, heap, playerToRoom, disconnectedPlayers, connected,
                 ioRooms>>

CreateRoom(s, draws) ==
  /\ UNCHANGED engineVars
  /\ s \in connected
  /\ generateRoomCode(draws) # ""
  /\ LET code == generateRoomCode(draws)
         o == LiveOid(code)
     IN /\ heap' = MapSet(heap, o, NewRoom(code, createPlayer(s)))
        /\ rooms' = MapSet(rooms, code, o)
        /\ playerToRoom' = MapSet(playerToRoom, s, code)
        /\ ioRooms' = ioRooms \cup {<<s, code>>}
        /\ emitted' = << Ev(s, "room-created", [code |-> code]) >>
  /\ UNCHANGED <<disconnectedPlayers, connected>>

JoinRoom(s, codeIn) ==
  /\ UNCHANGED engineVars
  /\ s \in connected
  /\ IF codeIn = "" THEN Reject(s, "Room code is required")
     ELSE
       LET code == toUpperCase(codeIn)
       IN IF ~Has(rooms, code) THEN Reject(s, "Invalid room code")
          ELSE
            LET o == rooms[code]
                room == heap[o]
            IN IF Len(room.players) >= 2 THEN Reject(s, "Room is full")
               ELSE
                 LET players == Append(room.players, createPlayer(s))
                     start == Len(players) = 2
                 IN /\ heap' = [heap EXCEPT ![o] =
                          [updateRoomActivity(room) EXCEPT
                             !.players = players,
                             !.phase = IF start THEN "placement" ELSE @]]
                    /\ playerToRoom' = MapSet(playerToRoom, s, code)
                    /\ ioRooms' = ioRooms \cup {<<s, code>>}
                    /\ emitted' =
                         << Ev(s, "room-joined", [code |-> code]) >>
                         \o (IF start THEN << Ev(code, "phase:placement", NoData) >>
                             ELSE << >>)
                    /\ UNCHANGED <<rooms, disconnectedPlayers, connected>>

\* The place-ships loop from placement i on: the first invalid placement
\* ends it with that error, else the board and the ships are handed on.
RECURSIVE PlaceAll(_, _, _, _)
PlaceAll(placements, i, board, ships) ==
  IF i > Len(placements)
  THEN [valid |-> TRUE, error |-> "", board |-> board, ships |-> ships]
  ELSE
    LET placement == placements[i]
        result == placeShip(board, placement.ship, placement.row, placement.col,
                            placement.orientation, i)
    IN IF ~result.valid
       THEN [valid |-> FALSE, error |-> result.error, board |-> board,
             ships |-> ships]
       ELSE PlaceAll(placements, i + 1, result.board, Append(ships, result.ship))

\* A validation that does not count the ships.
ValidatePlacementsNoCount(placements) ==
  LET r == PlaceAll(placements, 1, createBoard, << >>)
  IN IF ~r.valid
     THEN [r EXCEPT !.error = "Invalid placement: " \o r.error]
     ELSE r

\* Validation of a submission: the loop, then the count of the ships.
ValidatePlacements(placements) ==
  LET r == PlaceAll(placements, 1, createBoard, << >>)
  IN IF ~r.valid
     THEN [r EXCEPT !.error = "Invalid placement: " \o r.error]
     ELSE IF Len(r.ships) # Len(SHIPS)
          THEN [r EXCEPT !.valid = FALSE, !.error = "Not all ships were placed"]
          ELSE r

\* room.players.some(p => p.ready)
SomeReady(players) == \E i \in 1 .. Len(players) : players[i].ready

\* room.players.every(p => p.ready)
EveryReady(players) == \A i \in 1 .. Len(players) : players[i].ready

PlaceShips(s, placements) ==
  /\ UNCHANGED engineVars
  /\ s \in connected
  /\ IF ~Has(playerToRoom, s) THEN Reject(s, "Not in a room")
     ELSE
       LET roomCode == playerToRoom[s]
       IN IF ~Has(rooms, roomCode) THEN Reject(s, "Room not found")
          ELSE
            LET o == rooms[roomCode]
                room == heap[o]
                k == FindPlayer(room, s)
                v == ValidatePlacements(placements)
            IN IF room.phase # "placement" THEN Reject(s, "Not in placement phase")
               ELSE IF k = 0 THEN Reject(s, "Player not found")
               ELSE IF ~v.valid THEN Reject(s, v.error)
               ELSE
                 LET players == [room.players EXCEPT ![k] =
                                   [@ EXCEPT !.board = v.board, !.ships = v.ships,
                                             !.ready = TRUE]]
                     placed == [updateRoomActivity(room) EXCEPT
                                  !.players = players]
                 IN IF EveryReady(players)
                    THEN \E first \in {1, 2} :
                           LET currentTurn == players[first].socketId
                           IN /\ heap' = [heap EXCEPT ![o] =
                                   [placed EXCEPT !.currentTurn = currentTurn,
                                                  !.phase = "battle"]]
                              /\ emitted' =
                                   << Ev(s, "placement-confirmed", NoData) >>
                                   \o [i \in 1 .. Len(players) |->
                                         Ev(players[i].socketId, "phase:battle",
                                            [currentTurn |-> currentTurn,
                                             isYourTurn |->
                                               players[i].socketId = currentTurn])]
                              /\ UNCHANGED <<rooms, playerToRoom, disconnectedPlayers,
                                             connected, ioRooms>>
                    ELSE /\ heap' = [heap EXCEPT ![o] = placed]
                         /\ emitted' = << Ev(s, "placement-confirmed", NoData) >>
                         /\ UNCHANGED <<rooms, playerToRoom, disconnectedPlayers,
                                        connected, ioRooms>>

ShotData(row, col, result) ==
  [row |-> row, col |-> col, hit |-> result.hit, sunk |-> result.sunk,
   shipName |-> result.shipName]

GameOver(to, winner, reason) ==
  Ev(to, "game-over", [winner |-> winner, reason |-> reason])

\* isYourTurn is false for the firer and true for the opponent.
TurnChanged(to, currentTurn, isYourTurn) ==
  Ev(to, "turn-changed",
     [currentTurn |-> currentTurn, isYourTurn |-> isYourTurn])

\* A fire handler without the check of the turn.
NotYourTurnNever(room, s) == FALSE

\* room.currentTurn !== socket.id
NotYourTurn(room, s) == room.currentTurn # s

\* A fire handler that leaves the turn with the firer.
SwitchTurnsKeep(s, opponent) == s

\* The turn-holder after a shot of s that does not end the game.
SwitchTurns(s, opponent) == opponent.socketId

Fire(s, row, col) ==
  /\ UNCHANGED engineVars
  /\ s \in connected
  /\ IF ~Has(playerToRoom, s) THEN Reject(s, "Not in a room")
     ELSE
       LET roomCode == playerToRoom[s]
       IN IF ~Has(rooms, roomCode) THEN Reject(s, "Room not found")
          ELSE
            LET o == rooms[roomCode]
                room == heap[o]
                j == getOpponent(room, s)
            IN IF room.phase # "battle" THEN Reject(s, "Not in battle phase")
               ELSE IF NotYourTurn(room, s) THEN Reject(s, "Not your turn")
               ELSE IF j = 0 THEN Reject(s, "Opponent not found")
               ELSE
                 \E shot \in {resolveShot(room.players[j].board,
                                           room.players[j].ships, row, col)} :
                 LET opponent == room.players[j]
                     active == updateRoomActivity(room)
                     players == [room.players EXCEPT ![j] =
                                   [@ EXCEPT !.board = shot.board,
                                             !.ships = shot.ships]]
                     data == ShotData(row, col, shot.result)
                     results == << Ev(s, "shot-result", data),
                                   Ev(opponent.socketId, "opponent-shot", data) >>
                 IN /\ UNCHANGED <<rooms, playerToRoom, disconnectedPlayers,
                                   connected, ioRooms>>
                    /\ IF shot.threw
                       THEN /\ heap' = [heap EXCEPT ![o] = active]
                            /\ emitted' = << ErrorEv(s, shot.message) >>
                       ELSE IF shot.result.alreadyFired
                       THEN /\ heap' = [heap EXCEPT ![o] = active]
                            /\ emitted' = << ErrorEv(s, "Already fired at this cell") >>
                       ELSE IF checkWin(shot.ships)
                       THEN /\ heap' = [heap EXCEPT ![o] =
                                  [active EXCEPT !.players = players,
                                                 !.phase = "finished"]]
                            /\ emitted' = results \o
                                 << GameOver(s, s, "all-ships-sunk"),
                                    GameOver(opponent.socketId, s, "all-ships-sunk") >>
                       ELSE /\ heap' = [heap EXCEPT ![o] =
                                  [active EXCEPT !.players = players,
                                                 !.currentTurn = SwitchTurns(s, opponent)]]
                            /\ emitted' = results \o
                                 << TurnChanged(s, SwitchTurns(s, opponent), FALSE),
                                    TurnChanged(opponent.socketId,
                                                SwitchTurns(s, opponent), TRUE) >>

\* The closure of the forfeit timer handleDisconnect starts: the socket, the
\* room code, the Room object and the opponent it was started with, and the
\* time it is due.
Timeout(s, roomCode, o, opponent) ==
  [socket |-> s, roomCode |-> roomCode, room |-> o,
   opponent |-> opponent.socketId, due |-> now + RECONNECT_TIMEOUT_MS]

\* The transport of s goes down: socket.io takes s out of its rooms and
\* the 'disconnect' handler runs handleDisconnect.
Disconnect(s) ==
  /\ UNCHANGED engineVars
  /\ s \in connected
  /\ connected' = connected \ {s}
  /\ ioRooms' = {m \in ioRooms : m[1] # s}
  /\ IF ~Has(playerToRoom, s) \/ ~Has(rooms, playerToRoom[s])
     THEN /\ emitted' = << >>
          /\ UNCHANGED <<rooms, heap, playerToRoom, disconnectedPlayers>>
     ELSE
       LET roomCode == playerToRoom[s]
           o == rooms[roomCode]
           room == heap[o]
           j == getOpponent(room, s)
       IN IF j # 0
          THEN /\ emitted' =
                    << Ev(room.players[j].socketId, "opponent-disconnected", NoData) >>
               /\ disconnectedPlayers' =
                    MapSet(disconnectedPlayers, s,
                           Timeout(s, roomCode, o, room.players[j]))
               /\ UNCHANGED <<rooms, heap, playerToRoom>>
          ELSE /\ emitted' = << >>
               /\ playerToRoom' = MapDelete(playerToRoom, s)
               /\ Commit(MapDelete(rooms, roomCode), heap, disconnectedPlayers)

\* A timer that deletes the room whoever is left in it.
RoomEmptyAlways(players) == TRUE

\* room.players.length === 0
RoomEmpty(players) == Len(players) = 0

\* The forfeit timer of s elapses.
ForfeitTimeout(s) ==
  /\ UNCHANGED engineVars
  /\ Has(disconnectedPlayers, s)
  /\ now >= disconnectedPlayers[s].due
  /\ LET t == disconnectedPlayers[s]
         room == heap[t.room]
         players == SelectSeq(room.players, LAMBDA p : p.socketId # t.socket)
         forfeited == [heap EXCEPT ![t.room] =
                         [room EXCEPT !.phase = "finished", !.players = players]]
     IN /\ emitted' = << GameOver(t.opponent, t.opponent, "opponent-disconnect") >>
        /\ playerToRoom' = MapDelete(playerToRoom, t.socket)
        /\ Commit(IF RoomEmpty(players) THEN MapDelete(rooms, t.roomCode) ELSE rooms,
                  forfeited, MapDelete(disconnectedPlayers, t.socket))
  /\ UNCHANGED <<connected, ioRooms>>

\* handleReconnect's answer to the reconnecting player.
GameState(s, room, player) ==
  Ev(s, "game-state",
     [phase |-> room.phase, yourBoard |-> player.board, yourShips |-> player.ships,
      ready |-> player.ready, currentTurn |-> room.currentTurn,
      isYourTurn |-> room.currentTurn = s])

\* A handleReconnect that tells the players and forgets to clear the timer.
handleReconnectKeepsTimer(s, roomCode) ==
  /\ UNCHANGED <<rooms, heap, disconnectedPlayers>>
  /\ IF ~Has(disconnectedPlayers, s) \/ ~Has(rooms, roomCode)
     THEN emitted' = << >>
     ELSE
       LET room == heap[rooms[roomCode]]
           j == getOpponent(room, s)
           k == FindPlayer(room, s)
       IN emitted' =
            (IF j # 0
             THEN << Ev(room.players[j].socketId, "opponent-reconnected", NoData) >>
             ELSE << >>)
            \o (IF k # 0 THEN << GameState(s, room, room.players[k]) >>
                ELSE << >>)

handleReconnect(s, roomCode) ==
  IF ~Has(disconnectedPlayers, s)
  THEN /\ emitted' = << >>
       /\ UNCHANGED <<rooms, heap, disconnectedPlayers>>
  ELSE /\ Commit(rooms, heap, MapDelete(disconnectedPlayers, s))
       /\ IF ~Has(rooms, roomCode)
          THEN emitted' = << >>
          ELSE
            LET room == heap[rooms[roomCode]]
                j == getOpponent(room, s)
                k == FindPlayer(room, s)
            IN emitted' =
                 (IF j # 0
                  THEN << Ev(room.players[j].socketId, "opponent-reconnected", NoData) >>
                  ELSE << >>)
                 \o (IF k # 0 THEN << GameState(s, room, room.players[k]) >>
                     ELSE << >>)

\* s is back on a transport with its socket id and sends reconnect-to-room.
ReconnectToRoom(s, codeIn) ==
  /\ connected' = connected \cup {s}
  /\ UNCHANGED <<playerToRoom, ioRooms>>
  /\ UNCHANGED engineVars
  /\ IF codeIn = ""
     THEN /\ emitted' = << ErrorEv(s, "Room code is required") >>
          /\ UNCHANGED <<rooms, heap, disconnectedPlayers>>
     ELSE handleReconnect(s, toUpperCase(codeIn))

\* A sweep that closes a room as soon as its age reaches the window.
IdleRoomsAtWindow == {code \in DOMAIN rooms :
                        now - heap[rooms[code]].lastActivity >= IDLE_TIMEOUT_MS}

\* The rooms the sweep closes.
IdleRooms == {code \in DOMAIN rooms :
                now - heap[rooms[code]].lastActivity > IDLE_TIMEOUT_MS}

RECURSIVE SetToSeq(_)
SetToSeq(S) ==
  IF S = {} THEN << >>
  ELSE LET x == CHOOSE y \in S : TRUE IN <<x>> \o SetToSeq(S \ {x})

RECURSIVE Flatten(_)
Flatten(ss) == IF ss = << >> THEN << >> ELSE Head(ss) \o Flatten(Tail(ss))

RoomClosed(room) ==
  [i \in 1 .. Len(room.players) |->
     Ev(room.players[i].socketId, "room-closed",
        [reason |-> "Room was idle for 10 minutes"])]

\* The interval timer runs checkIdleRooms.  The rooms are visited in the
\* order of the Map; the events of different rooms are listed here in one
\* fixed order.
CheckIdleRooms ==
  LET idle == SetToSeq(IdleRooms)
      gone == UNION {{heap[rooms[code]].players[i].socketId :
                        i \in 1 .. Len(heap[rooms[code]].players)} :
                     code \in IdleRooms}
  IN /\ emitted' = Flatten([i \in 1 .. Len(idle) |-> RoomClosed(heap[rooms[idle[i]]])])
     /\ playerToRoom' = MapDeleteAll(playerToRoom, gone)
     /\ Commit(MapDeleteAll(rooms, IdleRooms), heap, disconnectedPlayers)
     /\ UNCHANGED <<connected, ioRooms>>
     /\ UNCHANGED engineVars

Max(a, b) == IF a >= b THEN a ELSE b

\* One unit of time passes.  A timestamp older than the idle window stays
\* older than it, and a timer that is due stays due, whatever their age.
Tick ==
  /\ heap' = [o \in DOMAIN heap |->
                IF \E c \in DOMAIN rooms : rooms[c] = o
                THEN [heap[o] EXCEPT !.lastActivity =
                        Max(@ - 1, now - (IDLE_TIMEOUT_MS + 1))]
                ELSE heap[o]]
  /\ disconnectedPlayers' =
       [s \in DOMAIN disconnectedPlayers |->
          [disconnectedPlayers[s] EXCEPT !.due = Max(@ - 1, now)]]
  /\ emitted' = << >>
  /\ UNCHANGED <<rooms, playerToRoom, connected, ioRooms>>
  /\ UNCHANGED engineVars

Next ==
  \/ \E s \in Sockets, draws \in DrawInputs : CreateRoom(s, draws)
  \/ \E s \in Sockets, codeIn \in CodeInputs : JoinRoom(s, codeIn)
  \/ \E s \in Sockets, placements \in PlacementInputs : PlaceShips(s, placements)
  \/ \E s \in Sockets, cell \in FireInputs : Fire(s, cell[1], cell[2])
  \/ \E s \in Sockets : Disconnect(s)
  \/ \E s \in Sockets, codeIn \in ReconnectInputs : ReconnectToRoom(s, codeIn)
  \/ \E s \in Sockets : ForfeitTimeout(s)
  \/ CheckIdleRooms
  \/ Tick

Spec == Init /\ [][Next]_vars

\* A game of one room played to its end, with no connection lost.
NextGame ==
  \/ \E s \in Sockets, draws \in DrawInputs : CreateRoom(s, draws)
  \/ \E s \in Sockets, codeIn \in CodeInputs : JoinRoom(s, codeIn)
  \/ \E s \in Sockets, placements \in GamePlacementInputs : PlaceShips(s, placements)
  \/ \E s \in Sockets, cell \in GameFireInputs : Fire(s, cell[1], cell[2])

SpecGame == Init /\ [][NextGame]_vars

\* The lobby and the placement of one room with every kind of submission,
\* and the first shots of the battle.
NextPlacement ==
  \/ \E s \in Sockets, draws \in DrawInputs : CreateRoom(s, draws)
  \/ \E s \in Sockets, codeIn \in CodeInputs : JoinRoom(s, codeIn)
  \/ \E s \in Sockets, placements \in GamePlacementInputs : PlaceShips(s, placements)
  \/ \E s \in Sockets, cell \in FireInputs : Fire(s, cell[1], cell[2])

SpecPlacement == Init /\ [][NextPlacement]_vars

\* Two rooms at a time: the lobby, the connections and the timers, with
\* codes drawn so that the second draw is needed while the first code is in
\* use.
NextRooms ==
  \/ \E s \in Sockets, draws \in RoomDrawInputs : CreateRoom(s, draws)
  \/ \E s \in Sockets, codeIn \in RoomCodeInputs : JoinRoom(s, codeIn)
  \/ \E s \in Sockets : Disconnect(s)
  \/ \E s \in Sockets, codeIn \in RoomCodeInputs : ReconnectToRoom(s, codeIn)
  \/ \E s \in Sockets : ForfeitTimeout(s)
  \/ CheckIdleRooms
  \/ Tick

SpecRooms == Init /\ [][NextRooms]_vars

\* A room used for more than one game: two fleets that place-ships
\* confirms, the connections and the timers.  Each player fires at the
\* cells of FireOrder one after the other.
RematchFleets == {StandardFleet, OneCellFleet}

FireOrder == << <<0, 0>>, <<1, 0>>, <<2, 0>>, <<3, 0>>, <<4, 2>> >>

\* The cells of FireOrder the opponent of s in the room of s has not been
\* fired at, in that order (all of them for a socket with no opponent).
OpenCells(s) ==
  IF Has(playerToRoom, s) /\ Has(rooms, playerToRoom[s])
       /\ getOpponent(heap[rooms[playerToRoom[s]]], s) # 0
  THEN LET room == heap[rooms[playerToRoom[s]]]
           opponent == room.players[getOpponent(room, s)]
       IN SelectSeq(FireOrder, LAMBDA cell : cell \notin opponent.board.hit)
  ELSE FireOrder

NextRematch ==
  \/ \E s \in Sockets, draws \in DrawInputs : CreateRoom(s, draws)
  \/ \E s \in Sockets : JoinRoom(s, "AAAAAA")
  \/ \E s \in Sockets, placements \in RematchFleets : PlaceShips(s, placements)
  \/ \E s \in Sockets :
       /\ OpenCells(s) # << >>
       /\ Fire(s, Head(OpenCells(s))[1], Head(OpenCells(s))[2])
  \/ \E s \in Sockets : Disconnect(s)
  \/ \E s \in Sockets : ReconnectToRoom(s, "AAAAAA")
  \/ \E s \in Sockets : ForfeitTimeout(s)
  \/ Tick

SpecRematch == Init /\ [][NextRematch]_vars


---------------------------------------------------------------------------
(* Callers of the engine: the placement tests of gameEngine.test.ts and
   AIOpponent.placeShipsRandomly of shared/src/aiOpponent.ts *)

\* The start cells the tests place ships at: corners and edges of the
\* board, its middle, and cells off each side.
EngineCells ==
  {<<0, 0>>, <<0, 8>>, <<8, 0>>, <<5, 5>>, <<9, 9>>,
   <<-1, 0>>, <<0, -1>>, <<10, 0>>, <<0, 10>>}

Orientations == {"horizontal", "vertical"}

\* The ships of SHIPS the tests place: the longest, a middle one, the
\* shortest.
EngineKinds == {1, 3, 5}

\* The timestamp and the random suffix of the ship ids of a caller.
IdToken == 1

\* A placeShip that writes the ship to the board it was given.
InputAfterInPlace(board, value) == IF value.valid THEN value.board ELSE board

\* The board passed to placeShip, after the call: the ship is written to a
\* copy that shares no cell with it.
InputAfter(board, value) == board

\* beforeEach: a test starts on a new board.
NewBoard ==
  /\ UNCHANGED serverVars
  /\ lastCall # NoCall
  /\ localBoard' = createBoard
  /\ localShips' = << >>
  /\ lastCall' = NoCall
  /\ UNCHANGED <<attempts, restarted>>
  /\ UNCHANGED strategyVars

\* A test places ship k of SHIPS, which its board does not hold yet, on its
\* board and goes on with the board it is handed back, if any.
PlaceShipCall(k, row, col, orientation) ==
  /\ UNCHANGED serverVars
  /\ \A i \in 1 .. Len(localShips) : localShips[i].name # SHIPS[k].name
  /\ LET value == placeShip(localBoard, SHIPS[k], row, col, orientation, IdToken)
     IN /\ lastCall' = [op |-> "placeShip", ship |-> SHIPS[k], row |-> row,
                        col |-> col, orientation |-> orientation,
                        value |-> value,
                        input |-> InputAfter(localBoard, value)]
        /\ IF value.valid
           THEN /\ localBoard' = value.board
                /\ localShips' = Append(localShips, value.ship)
           ELSE UNCHANGED <<localBoard, localShips>>
  /\ UNCHANGED <<attempts, restarted>>
  /\ UNCHANGED strategyVars

NextEngine ==
  \/ NewBoard
  \/ \E k \in EngineKinds, cell \in EngineCells, orientation \in Orientations :
       PlaceShipCall(k, cell[1], cell[2], orientation)

SpecEngine == Init /\ [][NextEngine]_vars

\* placeShipsRandomly gives a ship up after this many tries.
maxAttempts == 100

\* The cells Math.random() gives the AI: cells of the board.
AICells == {<<0, 0>>, <<2, 0>>, <<4, 0>>, <<6, 0>>, <<8, 0>>}

\* One turn of the while loop of placeShipsRandomly for the next ship of
\* SHIPS, with the cell and the orientation drawn.  The turn that places the
\* last ship returns the board and the ships; the turn that fails for the
\* hundredth time starts the function again, on an empty board.
Attempt(row, col, orientation) ==
  /\ UNCHANGED serverVars
  /\ UNCHANGED strategyVars
  /\ Len(localShips) < Len(SHIPS)
  /\ LET shipTemplate == SHIPS[Len(localShips) + 1]
         value == placeShip(localBoard, shipTemplate, row, col, orientation, IdToken)
     IN IF value.valid
        THEN /\ localBoard' = value.board
             /\ localShips' = Append(localShips, value.ship)
             /\ attempts' = 0
             /\ UNCHANGED restarted
             /\ lastCall' =
                  IF Len(localShips) + 1 = Len(SHIPS)
                  THEN [op |-> "return",
                        value |-> [board |-> value.board,
                                   ships |-> Append(localShips, value.ship)]]
                  ELSE [op |-> "placeShip", value |-> value,
                        input |-> InputAfter(localBoard, value)]
        ELSE IF attempts + 1 < maxAttempts
        THEN /\ attempts' = attempts + 1
             /\ lastCall' = [op |-> "placeShip", value |-> value,
                             input |-> InputAfter(localBoard, value)]
             /\ UNCHANGED <<localBoard, localShips, restarted>>
        ELSE /\ localBoard' = createBoard
             /\ localShips' = << >>
             /\ attempts' = 0
             /\ lastCall' = [op |-> "restart"]
             /\ restarted' = TRUE

\* The function is called again after it returned.
PlaceShipsRandomly ==
  /\ UNCHANGED serverVars
  /\ UNCHANGED strategyVars
  /\ lastCall.op = "return"
  /\ localBoard' = createBoard
  /\ localShips' = << >>
  /\ attempts' = 0
  /\ lastCall' = [op |-> "call"]
  /\ restarted' = FALSE

NextAI ==
  \/ PlaceShipsRandomly
  \/ \E cell \in AICells, orientation \in Orientations :
       Attempt(cell[1], cell[2], orientation)

SpecAI == Init /\ [][NextAI]_vars

---------------------------------------------------------------------------
(* The strategy of the AI: AIOpponent.getNextShot of shared/src/aiOpponent.ts,
   and its callers: the tests of aiOpponent.test.ts *)

\* An entry of a shot history; sunk is FALSE where the caller leaves it out.
ShotEntry(row, col, hit, sunk) ==
  [row |-> row, col |-> col, hit |-> hit, sunk |-> sunk]

\* firedPositions: the cells of the entries of the history.
FiredPositions(hist) == {<<hist[i].row, hist[i].col>> : i \in 1 .. Len(hist)}

\* up, down, left, right
Directions == << <<-1, 0>>, <<1, 0>>, <<0, -1>>, <<0, 1>> >>

\* addAdjacentTargets from direction d on: the target queue with the
\* neighbours of (row, col) that are on the board, not fired at and not
\* queued yet.
RECURSIVE addAdjacentTargets(_, _, _, _, _)
addAdjacentTargets(queue, row, col, fired, d) ==
  IF d > Len(Directions) THEN queue
  ELSE
    LET newRow == row + Directions[d][1]
        newCol == col + Directions[d][2]
        alreadyQueued == \E i \in 1 .. Len(queue) : queue[i] = <<newRow, newCol>>
        add == /\ newRow >= 0 /\ newRow < BOARD_SIZE
               /\ newCol >= 0 /\ newCol < BOARD_SIZE
               /\ <<newRow, newCol>> \notin fired
               /\ ~alreadyQueued
    IN addAdjacentTargets(IF add THEN Append(queue, <<newRow, newCol>>) ELSE queue,
                          row, col, fired, d + 1)

\* A turn of the loop that keeps the queue when the entry is sunk.
ProcessShotKeepsQueue(st, entry, fired) ==
  LET hunting ==
        IF entry.hit /\ ~entry.sunk
        THEN [st EXCEPT !.mode = "target",
                        !.lastHit = <<entry.row, entry.col>>,
                        !.currentShipHits = Append(@, <<entry.row, entry.col>>),
                        !.targetQueue =
                          addAdjacentTargets(@, entry.row, entry.col, fired, 1)]
        ELSE st
  IN IF entry.sunk
     THEN [hunting EXCEPT !.mode = "hunt",
                          !.currentShipHits = << >>, !.lastHit = << >>]
     ELSE hunting

\* One turn of the loop of updateStateFromHistory.
ProcessShot(st, entry, fired) ==
  LET hunting ==
        IF entry.hit /\ ~entry.sunk
        THEN [st EXCEPT !.mode = "target",
                        !.lastHit = <<entry.row, entry.col>>,
                        !.currentShipHits = Append(@, <<entry.row, entry.col>>),
                        !.targetQueue =
                          addAdjacentTargets(@, entry.row, entry.col, fired, 1)]
        ELSE st
  IN IF entry.sunk
     THEN [hunting EXCEPT !.mode = "hunt", !.targetQueue = << >>,
                          !.currentShipHits = << >>, !.lastHit = << >>]
     ELSE hunting

\* The loop over shotHistory.slice(lastProcessedShotCount): the entries i to
\* j in their order. The range is halved and the state after the first half
\* is computed before the second half is entered (the loop leaves
\* lastProcessedShotCount alone), which keeps the evaluation shallow.
RECURSIVE ProcessShots(_, _, _, _, _)
ProcessShots(st, hist, i, j, fired) ==
  IF i > j THEN st
  ELSE IF i = j THEN ProcessShot(st, hist[i], fired)
  ELSE LET mid == (i + j) \div 2
           half == ProcessShots(st, hist, i, mid, fired)
       IN IF half.lastProcessedShotCount = st.lastProcessedShotCount
          THEN ProcessShots(half, hist, mid + 1, j, fired)
          ELSE half

\* An update that goes through the history from its first entry on at
\* every call.
updateStateFromHistoryFromStart(st, hist, fired) ==
  IF Len(hist) = 0 THEN resetState
  ELSE [ProcessShots(st, hist, 1, Len(hist), fired)
          EXCEPT !.lastProcessedShotCount = Len(hist)]

updateStateFromHistory(st, hist, fired) ==
  IF Len(hist) = 0 THEN resetState
  ELSE [ProcessShots(st, hist, st.lastProcessedShotCount + 1, Len(hist), fired)
          EXCEPT !.lastProcessedShotCount = Len(hist)]

\* The cells of the board, row by row.
AllCells ==
  [i \in 1 .. BOARD_SIZE * BOARD_SIZE |->
     <<(i - 1) \div BOARD_SIZE, (i - 1) % BOARD_SIZE>>]

\* A hunt that draws among all the cells of the board, fired at or not.
getHuntModeShotAnyCell(st, fired, rand) ==
  [threw |-> FALSE,
   cell |-> AllCells[(rand[1] * Len(AllCells)) \div rand[2] + 1],
   state |-> st]

\* Math.random() is the fraction rand[1] / rand[2]; the index drawn is
\* floor(random * length), counted from 1 here.
getHuntModeShot(st, fired, rand) ==
  LET availableCells == SelectSeq(AllCells, LAMBDA c : c \notin fired)
  IN IF Len(availableCells) = 0
     THEN [threw |-> TRUE, message |-> "No available cells to fire at",
           state |-> st]
     ELSE [threw |-> FALSE,
           cell |-> availableCells[(rand[1] * Len(availableCells)) \div rand[2] + 1],
           state |-> st]

\* A target mode that draws the candidate queued last.
getTargetModeShotLastIn(st, fired, rand) ==
  LET queue == SelectSeq(st.targetQueue, LAMBDA t : t \notin fired)
  IN IF Len(queue) = 0
     THEN getHuntModeShot([st EXCEPT !.targetQueue = queue, !.mode = "hunt"],
                          fired, rand)
     ELSE [threw |-> FALSE, cell |-> queue[Len(queue)],
           state |-> [st EXCEPT !.targetQueue = SubSeq(queue, 1, Len(queue) - 1)]]

getTargetModeShot(st, fired, rand) ==
  LET queue == SelectSeq(st.targetQueue, LAMBDA t : t \notin fired)
  IN IF Len(queue) = 0
     THEN getHuntModeShot([st EXCEPT !.targetQueue = queue, !.mode = "hunt"],
                          fired, rand)
     ELSE [threw |-> FALSE, cell |-> Head(queue),
           state |-> [st EXCEPT !.targetQueue = Tail(queue)]]

\* A getNextShot that looks at the board of the player and returns a cell
\* of a ship while there is one it has not fired at.
getNextShotPeeking(st, hist, rand) ==
  LET fired == FiredPositions(hist)
      updated == updateStateFromHistory(st, hist, fired)
      afloat == SelectSeq(AllCells,
                          LAMBDA c : /\ CellAt(localBoard, c).ship # NullShip
                                     /\ c \notin fired)
  IN IF Len(afloat) > 0
     THEN [threw |-> FALSE, cell |-> afloat[1], state |-> updated]
     ELSE getHuntModeShot(updated, fired, rand)

\* getNextShot: what it returns or throws, and the state it leaves.
getNextShot(st, hist, rand) ==
  LET fired == FiredPositions(hist)
      updated == updateStateFromHistory(st, hist, fired)
  IN IF updated.mode = "target" /\ Len(updated.targetQueue) > 0
     THEN getTargetModeShot(updated, fired, rand)
     ELSE getHuntModeShot(updated, fired, rand)

\* The values of Math.random() the callers meet: 0, 1/2 and 99/100.
RandomInputs == {<<0, 1>>, <<1, 2>>, <<99, 100>>}

Miss(row, col) == ShotEntry(row, col, FALSE, FALSE)
Hit(row, col) == ShotEntry(row, col, TRUE, FALSE)
Sunk(row, col) == ShotEntry(row, col, TRUE, TRUE)

\* Every cell of the board but the cells of the set, as misses.
MissesBut(cells) ==
  LET rest == SelectSeq(AllCells, LAMBDA c : c \notin cells)
  IN [i \in 1 .. Len(rest) |-> Miss(rest[i][1], rest[i][2])]

\* The histories the tests hand to getNextShot, and histories that cover
\* the board or leave one cell of it.
HistoryInputs ==
  { << >>,
    << Miss(0, 0) >>,
    << Miss(0, 0), Hit(1, 1) >>,
    << Miss(0, 0), Hit(1, 1), Sunk(1, 2) >>,
    << Miss(0, 0), Hit(1, 1), Sunk(1, 2), Miss(7, 7) >>,
    << Miss(5, 5), Hit(3, 3) >>,
    << Hit(5, 5) >>,
    << Hit(5, 5), Hit(5, 6) >>,
    << Hit(5, 5), Hit(5, 6), Hit(5, 7) >>,
    << Hit(5, 5), Hit(5, 6), Hit(5, 7), Sunk(5, 8) >>,
    << Hit(5, 5), Sunk(5, 6) >>,
    << Hit(5, 5), Miss(4, 5) >>,
    << Hit(5, 5), Miss(4, 5), Miss(6, 5) >>,
    << Hit(5, 5), Miss(5, 4), Miss(4, 5) >>,
    << Hit(5, 5), Miss(4, 5), Miss(6, 5), Miss(5, 4), Miss(5, 6) >>,
    << Hit(5, 5), Miss(4, 5), Miss(6, 5), Miss(5, 4), Miss(5, 6), Hit(9, 9) >>,
    << Miss(4, 5), Miss(6, 5), Miss(5, 4), Miss(5, 6) >>,
    << Miss(4, 5), Miss(6, 5), Miss(5, 4), Miss(5, 6), Hit(5, 5) >>,
    << Hit(0, 0) >>,
    << Hit(0, 0), Miss(1, 0) >>,
    << Hit(0, 0), Miss(1, 0), Hit(0, 1) >>,
    << Hit(0, 9) >>,
    << Hit(5, 5), Hit(0, 0) >>,
    MissesBut({}),
    MissesBut({<<9, 9>>}),
    << Hit(5, 5) >> \o MissesBut({<<5, 5>>}),
    << Hit(5, 5) >> \o MissesBut({<<5, 5>>, <<5, 6>>}) }

\* hist is shotHistory with entries added at its end, or shotHistory.
Extends(hist, prefix) ==
  /\ Len(prefix) <= Len(hist)
  /\ SubSeq(hist, 1, Len(prefix)) = prefix

\* beforeEach: a test starts with a new AIOpponent and no history.
NewAI ==
  /\ UNCHANGED serverVars
  /\ UNCHANGED <<localBoard, localShips, attempts, restarted>>
  /\ lastCall # NoCall
  /\ aiState' = resetState
  /\ shotHistory' = << >>
  /\ lastCall' = NoCall

\* The history of the caller has grown to hist and the caller calls
\* getNextShot with it.
GetNextShot(hist, rand) ==
  /\ UNCHANGED serverVars
  /\ UNCHANGED <<localBoard, localShips, attempts, restarted>>
  /\ Extends(hist, shotHistory)
  /\ LET value == getNextShot(aiState, hist, rand)
     IN /\ aiState' = value.state
        /\ lastCall' = [op |-> "getNextShot", rand |-> rand,
                        threw |-> value.threw,
                        cell |-> IF value.threw THEN << >> ELSE value.cell,
                        message |-> IF value.threw THEN value.message ELSE ""]
  /\ shotHistory' = hist

NextStrategy ==
  \/ NewAI
  \/ \E hist \in HistoryInputs, rand \in RandomInputs : GetNextShot(hist, rand)

SpecStrategy == Init /\ [][NextStrategy]_vars

---------------------------------------------------------------------------
(* A game against the AI: the AI turn of handleAIShot in
   client/src/components/BattlePhase.tsx, and the game simulation of
   aiOpponent.test.ts *)

\* The five ships in the last rows, the Destroyer on (9,8),(9,9).
CornerFleet ==
  << P("Carrier", 5, 5, 0, "horizontal"), P("Battleship", 4, 6, 3, "horizontal"),
     P("Cruiser", 3, 7, 1, "horizontal"), P("Submarine", 3, 8, 5, "horizontal"),
     P("Destroyer", 2, 9, 8, "horizontal") >>

\* The five ships apart from each other, three of them vertical.
SpreadFleet ==
  << P("Carrier", 5, 0, 0, "vertical"), P("Battleship", 4, 2, 9, "vertical"),
     P("Cruiser", 3, 9, 3, "horizontal"), P("Submarine", 3, 4, 4, "vertical"),
     P("Destroyer", 2, 0, 8, "horizontal") >>

\* The fleets the AI plays against.
GameFleets == {StandardFleet, CornerFleet, SpreadFleet}

\* A game starts, at first or after the game before it was won: a board and
\* ships of a complete fleet, a new AIOpponent and an empty history.
StartAIGame(fleet) ==
  /\ UNCHANGED serverVars
  /\ UNCHANGED <<attempts, restarted>>
  /\ lastCall = NoCall \/ checkWin(localShips)
  /\ LET placed == PlaceAll(fleet, 1, createBoard, << >>)
     IN /\ placed.valid
        /\ localBoard' = placed.board
        /\ localShips' = placed.ships
  /\ aiState' = resetState
  /\ shotHistory' = << >>
  /\ lastCall' = [op |-> "start"]

\* The turn of the AI: getNextShot with the history, resolveShot on the
\* board of the player, the outcome appended to the history.  Math.random()
\* keeps its value while the AI is after one ship.
AITurn(rand) ==
  /\ UNCHANGED serverVars
  /\ UNCHANGED <<attempts, restarted>>
  /\ lastCall.op \in {"start", "aiShot"}
  /\ ~checkWin(localShips)
  /\ (lastCall.op = "aiShot" /\ ~shotHistory[Len(shotHistory)].sunk)
       => rand = lastCall.rand
  /\ \E aiShot \in {getNextShot(aiState, shotHistory, rand)} :
       /\ aiState' = aiShot.state
       /\ IF aiShot.threw
          THEN /\ lastCall' = [op |-> "threw", message |-> aiShot.message]
               /\ UNCHANGED <<localBoard, localShips, shotHistory>>
          ELSE
            \E aiResult \in {resolveShot(localBoard, localShips,
                                         aiShot.cell[1], aiShot.cell[2])} :
              IF aiResult.threw
              THEN /\ lastCall' = [op |-> "threw", message |-> aiResult.message]
                   /\ UNCHANGED <<localBoard, localShips, shotHistory>>
              ELSE /\ lastCall' = [op |-> "aiShot", rand |-> rand,
                                   cell |-> aiShot.cell,
                                   result |-> aiResult.result]
                   /\ shotHistory' =
                        Append(shotHistory,
                               ShotEntry(aiShot.cell[1], aiShot.cell[2],
                                         aiResult.result.hit,
                                         aiResult.result.sunk))
                   /\ localBoard' = aiResult.board
                   /\ localShips' = aiResult.ships

NextAIGame ==
  \/ \E fleet \in GameFleets : StartAIGame(fleet)
  \/ \E rand \in RandomInputs : AITurn(rand)

SpecAIGame == Init /\ [][NextAIGame]_vars

\* The AI turn that handleAIShot schedules with setTimeout is run.
SpecAIGameFair ==
  SpecAIGame /\ WF_vars(\E rand \in RandomInputs : AITurn(rand))


---------------------------------------------------------------------------
(* Properties of the fire handler and of the phase of a room *)

AllFireInputs == FireInputs \cup GameFireInputs

\* The Room object rooms holds for a code.
R(c) == heap[rooms[c]]

SocketsOf(room) == {room.players[i].socketId : i \in 1 .. Len(room.players)}

\* s is mapped to a live room in battle and holds the turn.
MayFire(s) ==
  /\ Has(playerToRoom, s)
  /\ Has(rooms, playerToRoom[s])
  /\ R(playerToRoom[s]).phase = "battle"
  /\ R(playerToRoom[s]).currentTurn = s

\* This step is a shot accepted on the board of player j of room c: the
\* room is in battle and the set of fired cells of that board changes.
ShotAt(c, j) ==
  /\ R(c).phase = "battle"
  /\ c \in DOMAIN rooms'
  /\ Len(heap'[rooms'[c]].players) = Len(R(c).players)
  /\ j \in 1 .. Len(R(c).players)
  /\ heap'[rooms'[c]].players[j].socketId = R(c).players[j].socketId
  /\ heap'[rooms'[c]].players[j].board.hit # R(c).players[j].board.hit

AllSunk(ships) == ships # << >> /\ \A i \in 1 .. Len(ships) : ships[i].sunk

\* Event name was sent to socket `to` by the step.
Sent(events, to, name) ==
  \E i \in 1 .. Len(events) : events[i][1] = to /\ events[i][2] = name

\* C1: a fire request of a socket that is not the turn-holder of a live room
\* in battle (wrong turn, or waiting, placement or finished, or no room) is
\* answered with exactly one error to the requester and leaves the rooms,
\* every Room object (boards, fleets, phase, turn-holder, last activity), the
\* socket map and the timers unchanged: nothing of the request is kept.
RejectedFireChangesNothing ==
  [][\A s \in Sockets, cell \in AllFireInputs :
       (Fire(s, cell[1], cell[2]) /\ ~MayFire(s)) =>
         /\ UNCHANGED <<rooms, heap, playerToRoom, disconnectedPlayers,
                        connected, ioRooms>>
         /\ Len(emitted') = 1
         /\ emitted'[1][1] = s
         /\ emitted'[1][2] = "error"]_vars

\* A fire of the player who does not hold the turn of a battle was rejected.
RejectedFireWitness ==
  \E s \in Sockets :
    /\ emitted = << ErrorEv(s, "Not your turn") >>
    /\ Has(playerToRoom, s) /\ Has(rooms, playerToRoom[s])
    /\ R(playerToRoom[s]).phase = "battle"
    /\ R(playerToRoom[s]).currentTurn # s

\* C2: in battle, a shot accepted on the board of one player that leaves a
\* ship of that fleet afloat was fired by the turn-holder, who is the other
\* player; it makes the target the turn-holder, the room stays in battle and
\* both players are sent turn-changed with the new turn-holder.  The
\* turn-holder of a room in battle changes at no other step, so the accepted
\* shots alternate between the two players.
TurnAlternates ==
  [][\A c \in DOMAIN rooms :
       /\ \A j \in 1 .. Len(R(c).players) :
            (ShotAt(c, j) /\ ~AllSunk(heap'[rooms'[c]].players[j].ships)) =>
              LET target == R(c).players[j].socketId
                  firer == R(c).currentTurn
              IN /\ firer # target
                 /\ firer \in SocketsOf(R(c))
                 /\ heap'[rooms'[c]].phase = "battle"
                 /\ heap'[rooms'[c]].currentTurn = target
                 /\ \A p \in {firer, target} :
                      \E i \in 1 .. Len(emitted') :
                        /\ emitted'[i][1] = p
                        /\ emitted'[i][2] = "turn-changed"
                        /\ emitted'[i][3].currentTurn = target
                        /\ emitted'[i][3].isYourTurn = (p = target)
       /\ (/\ R(c).phase = "battle"
           /\ c \in DOMAIN rooms'
           /\ heap'[rooms'[c]].phase = "battle"
           /\ heap'[rooms'[c]].currentTurn # R(c).currentTurn)
          => \E j \in 1 .. Len(R(c).players) : ShotAt(c, j)]_vars

\* Both players have been fired at and the last shot passed the turn.
TurnAlternatesWitness ==
  \E c \in DOMAIN rooms :
    /\ R(c).phase = "battle"
    /\ Len(R(c).players) = 2
    /\ \A j \in 1 .. 2 : Cardinality(R(c).players[j].board.hit) >= 2
    /\ \E s \in Sockets : Sent(emitted, s, "turn-changed")

\* C3: a shot accepted on the board of a player finishes the room exactly
\* when every ship of that player's non-empty fleet is sunk after it; then
\* both players are sent game-over with the firer as winner and the reason
\* all-ships-sunk, and the turn-holder stays the firer.  A shot that leaves
\* a ship afloat sends no game-over and leaves the room in battle, and
\* game-over with that reason is sent at no step that is not such a shot.
FinishedWhenAllSunk ==
  [][/\ \A c \in DOMAIN rooms : \A j \in 1 .. Len(R(c).players) :
          ShotAt(c, j) =>
            LET won == AllSunk(heap'[rooms'[c]].players[j].ships)
                target == R(c).players[j].socketId
                firer == R(c).currentTurn
            IN /\ won <=> heap'[rooms'[c]].phase = "finished"
               /\ won <=> \E s \in Sockets : Sent(emitted', s, "game-over")
               /\ won =>
                    /\ heap'[rooms'[c]].currentTurn = firer
                    /\ firer # target
                    /\ \A p \in {firer, target} :
                         \E i \in 1 .. Len(emitted') :
                           emitted'[i] = GameOver(p, firer, "all-ships-sunk")
     /\ (\E i \in 1 .. Len(emitted') :
           /\ emitted'[i][2] = "game-over"
           /\ emitted'[i][3].reason = "all-ships-sunk")
        => \E c \in DOMAIN rooms : \E j \in 1 .. Len(R(c).players) :
             ShotAt(c, j) /\ AllSunk(heap'[rooms'[c]].players[j].ships)]_vars

\* A room was finished by the shot that sank the last ship of a fleet.
FinishedWhenAllSunkWitness ==
  \E c \in DOMAIN rooms :
    /\ R(c).phase = "finished"
    /\ \E j \in 1 .. Len(R(c).players) : AllSunk(R(c).players[j].ships)
    /\ \E s \in Sockets :
         \E i \in 1 .. Len(emitted) : emitted[i] = GameOver(s, s, "all-ships-sunk")

PhaseRank(phase) ==
  CASE phase = "waiting" -> 0
    [] phase = "placement" -> 1
    [] phase = "battle" -> 2
    [] phase = "finished" -> 3

\* C4: while rooms holds a room, no step moves its phase to an earlier one
\* in the order waiting, placement, battle, finished.
PhaseOnlyForward ==
  [][\A c \in DOMAIN rooms \cap DOMAIN rooms' :
       PhaseRank(heap'[rooms'[c]].phase) >= PhaseRank(R(c).phase)]_vars


---------------------------------------------------------------------------
(* Properties of the place-ships handler *)

AllPlacementInputs == PlacementInputs \cup GamePlacementInputs

\* Some placement of the list is invalid on the board the ones before it
\* leave, or the list does not yield as many ships as SHIPS has.
Rejectable(placements) ==
  LET r == PlaceAll(placements, 1, createBoard, << >>)
  IN ~r.valid \/ Len(r.ships) # Len(SHIPS)

\* s is a player of the live room it is mapped to, and the room is in
\* placement.
InPlacement(s) ==
  /\ Has(playerToRoom, s)
  /\ Has(rooms, playerToRoom[s])
  /\ R(playerToRoom[s]).phase = "placement"
  /\ s \in SocketsOf(R(playerToRoom[s]))

\* C6: a place-ships request whose list has an invalid placement or does not
\* yield five ships is answered with exactly one error to the requester and
\* leaves rooms, every Room object (boards, fleets, ready flags, phase,
\* turn-holder), the socket map and the timers as they were.  A request
\* with a valid list of a player of a room in placement is confirmed and
\* leaves the player with the board and the fleet derived from the list
\* alone, and ready.
PlacementAllOrNothing ==
  [][\A s \in Sockets, placements \in AllPlacementInputs :
       PlaceShips(s, placements) =>
         IF Rejectable(placements)
         THEN /\ UNCHANGED <<rooms, heap, playerToRoom, disconnectedPlayers,
                             connected, ioRooms>>
              /\ Len(emitted') = 1
              /\ emitted'[1][1] = s
              /\ emitted'[1][2] = "error"
         ELSE InPlacement(s) =>
                LET c == playerToRoom[s]
                    k == FindPlayer(R(c), s)
                    r == PlaceAll(placements, 1, createBoard, << >>)
                IN /\ c \in DOMAIN rooms'
                   /\ heap'[rooms'[c]].players[k] =
                        [socketId |-> s, board |-> r.board, ships |-> r.ships,
                         ready |-> TRUE]
                   /\ emitted'[1] = Ev(s, "placement-confirmed", NoData)]_vars

\* A player who is ready has sent a list whose last ship overlaps another
\* one, the request was rejected and the player is ready as before.
PlacementAllOrNothingWitness ==
  \E s \in Sockets :
    /\ emitted = << ErrorEv(s, "Invalid placement: Ship overlaps with another ship") >>
    /\ InPlacement(s)
    /\ LET room == R(playerToRoom[s])
       IN /\ room.players[FindPlayer(room, s)].ready
          /\ Len(room.players[FindPlayer(room, s)].ships) = Len(SHIPS)

\* C7: a room that rooms holds goes from another phase to battle at exactly
\* the step that confirms a placement of one of its players in placement
\* after which the room has two players, both ready; at that step the
\* turn-holder is the socket of one of the two players and each of them is
\* sent phase:battle with that turn-holder.
EntersBattle ==
  [][\A c \in DOMAIN rooms :
       LET enters == /\ c \in DOMAIN rooms'
                     /\ R(c).phase # "battle"
                     /\ heap'[rooms'[c]].phase = "battle"
           accepted == /\ c \in DOMAIN rooms'
                       /\ R(c).phase = "placement"
                       /\ emitted' # << >>
                       /\ \E s \in SocketsOf(R(c)) :
                            /\ Has(playerToRoom, s)
                            /\ playerToRoom[s] = c
                            /\ emitted'[1] = Ev(s, "placement-confirmed", NoData)
           bothReady == /\ Len(heap'[rooms'[c]].players) = 2
                        /\ \A i \in 1 .. 2 : heap'[rooms'[c]].players[i].ready
       IN /\ enters <=> (accepted /\ bothReady)
          /\ enters =>
               LET turn == heap'[rooms'[c]].currentTurn
               IN /\ turn \in SocketsOf(heap'[rooms'[c]])
                  /\ \A p \in SocketsOf(heap'[rooms'[c]]) :
                       \E i \in 1 .. Len(emitted') :
                         emitted'[i] =
                           Ev(p, "phase:battle",
                              [currentTurn |-> turn, isYourTurn |-> p = turn])]_vars

\* A battle has just started with the turn given to the second player.
EntersBattleWitness ==
  \E c \in DOMAIN rooms :
    /\ R(c).phase = "battle"
    /\ Len(R(c).players) = 2
    /\ R(c).players[1].socketId # R(c).players[2].socketId
    /\ R(c).currentTurn = R(c).players[2].socketId
    /\ \A i \in 1 .. 2 : Sent(emitted, R(c).players[i].socketId, "phase:battle")

\* C8: every ready player of a room holds five ships, one of each kind of
\* SHIPS with the size of its kind and as many cells, and the ships occupy
\* 17 cells of the board.
ReadyFleetIsStandard ==
  \A c \in DOMAIN rooms : \A i \in 1 .. Len(R(c).players) :
    LET player == R(c).players[i]
    IN player.ready =>
         /\ Len(player.ships) = Len(SHIPS)
         /\ \A n \in 1 .. Len(SHIPS) :
              Cardinality({k \in 1 .. Len(player.ships) :
                             /\ player.ships[k].name = SHIPS[n].name
                             /\ player.ships[k].size = SHIPS[n].size
                             /\ Len(player.ships[k].cells) = SHIPS[n].size}) = 1
         /\ Cardinality(DOMAIN player.board.ship) = 17


---------------------------------------------------------------------------
(* Properties of the forfeit timer *)

\* The timer of s holds the Room object that rooms holds for its code.
TimerRoomLive(s) ==
  /\ Has(rooms, disconnectedPlayers[s].roomCode)
  /\ rooms[disconnectedPlayers[s].roomCode] = disconnectedPlayers[s].room

\* The players the timer of s leaves in its room.
Remaining(s) ==
  SelectSeq(heap[disconnectedPlayers[s].room].players,
            LAMBDA p : p.socketId # s)

\* C9: when the forfeit timer of a socket elapses, the winner that game-over
\* names is a player of the room after the step: the room is still held by
\* rooms, is finished, and the winner is one of its players.
ForfeitWinnerRemains ==
  [][\A s \in Sockets :
       ForfeitTimeout(s) =>
         LET t == disconnectedPlayers[s]
         IN /\ emitted' = << GameOver(t.opponent, t.opponent, "opponent-disconnect") >>
            /\ Has(rooms', t.roomCode)
            /\ heap'[rooms'[t.roomCode]].phase = "finished"
            /\ t.opponent \in SocketsOf(heap'[rooms'[t.roomCode]])]_vars

\* C10 as stated: when the forfeit timer of a socket elapses on a room in
\* battle, rooms no longer holds the room's code after the step.
ForfeitRemovesRoom ==
  [][\A s \in Sockets :
       (ForfeitTimeout(s) /\ TimerRoomLive(s)
          /\ heap[disconnectedPlayers[s].room].phase = "battle")
       => ~Has(rooms', disconnectedPlayers[s].roomCode)]_vars

\* C10: when the forfeit timer of a socket elapses on the room rooms holds
\* for its code, game-over with the reason opponent-disconnect is sent to the
\* opponent of the socket and names it the winner, and the socket is no
\* longer mapped to a room; the code leaves rooms if no other player is left
\* in the room, and otherwise rooms keeps the room, finished, with the
\* players that are left.  From a battle the opponent is among them.
ForfeitKeepsOccupiedRoom ==
  [][\A s \in Sockets :
       (ForfeitTimeout(s) /\ TimerRoomLive(s)) =>
         LET t == disconnectedPlayers[s]
         IN /\ emitted' = << GameOver(t.opponent, t.opponent, "opponent-disconnect") >>
            /\ ~Has(playerToRoom', s)
            /\ IF Remaining(s) = << >>
               THEN ~Has(rooms', t.roomCode)
               ELSE /\ Has(rooms', t.roomCode)
                    /\ heap'[rooms'[t.roomCode]].phase = "finished"
                    /\ heap'[rooms'[t.roomCode]].players = Remaining(s)
            /\ heap[t.room].phase = "battle" =>
                 /\ Len(Remaining(s)) = 1
                 /\ Remaining(s)[1].socketId = t.opponent]_vars

\* A battle in which shots were fired has ended by forfeit and rooms still
\* holds the room with the winner as its only player.
ForfeitKeepsOccupiedRoomWitness ==
  \E c \in DOMAIN rooms : \E s \in Sockets :
    /\ emitted = << GameOver(s, s, "opponent-disconnect") >>
    /\ R(c).phase = "finished"
    /\ Len(R(c).players) = 1
    /\ R(c).players[1].socketId = s
    /\ R(c).players[1].ready
    /\ R(c).players[1].board.hit # {}
    /\ R(c).currentTurn # ""


---------------------------------------------------------------------------
(* What a shot tells the firer about the ships of the opponent *)

\* The name of the ship on a cell of a board, NoName on an empty cell.
ShipNameAt(board, cell) ==
  IF cell \in DOMAIN board.ship THEN board.ship[cell][1] ELSE NoName

\* Two boards show the same on the given cells.
AgreeOn(board, other, cells) ==
  \A cell \in cells : ShipNameAt(board, cell) = ShipNameAt(other, cell)

\* A standard fleet that differs from StandardFleet on cells no client of
\* the model fires at.
MovedFleet == [StandardFleet EXCEPT ![1] = P("Carrier", 5, 5, 1, "horizontal")]

\* The shot-result the firer would be sent for the cell fired at if the
\* opponent had submitted the list `other`, with the same cells fired at
\* before.
OtherShotResult(firer, other, fired, cell) ==
  LET r == PlaceAll(other, 1, createBoard, << >>)
      shot == resolveShot([r.board EXCEPT !.hit = fired], r.ships,
                          cell[1], cell[2])
  IN Ev(firer, "shot-result", ShotData(cell[1], cell[2], shot.result))

\* Every accepted shot sends the firer the shot-result it would have sent
\* had the opponent submitted any list of `others` whose board agrees with
\* the opponent's on every cell fired at, the one of this shot included.
SameShotResult(others) ==
  \A c \in DOMAIN rooms : \A j \in 1 .. Len(R(c).players) :
    ShotAt(c, j) =>
      LET before == R(c).players[j].board
          after == heap'[rooms'[c]].players[j].board
          cell == CHOOSE x \in after.hit : x \notin before.hit
          firer == R(c).currentTurn
      IN \A other \in others :
           AgreeOn(before, PlaceAll(other, 1, createBoard, << >>).board, after.hit)
           => \E i \in 1 .. Len(emitted') :
                emitted'[i] = OtherShotResult(firer, other, before.hit, cell)

\* C5: two runs whose opponent boards agree on the cells fired at send the
\* firer the same shot-result, whatever lists the server accepts from the
\* opponent in the two runs.
ShotResultHidesUnfiredCells ==
  [][SameShotResult({placements \in AllPlacementInputs :
                       ~Rejectable(placements)})]_vars

\* The same for opponents whose fleets are the standard one: the runs with
\* StandardFleet compared with the runs with MovedFleet.
ShotResultHidesUnfiredCellsOfStandardFleets ==
  [][\A c \in DOMAIN rooms : \A j \in 1 .. Len(R(c).players) :
       (ShotAt(c, j) /\ Len(R(c).players[j].ships[1].cells) = SHIPS[1].size)
       => SameShotResult({StandardFleet, MovedFleet})]_vars

---------------------------------------------------------------------------
(* Properties of disconnect, reconnect and the idle sweep *)

\* The live rooms that have s among their players.
RoomsOf(s) == {c \in DOMAIN rooms : s \in SocketsOf(R(c))}

\* C11: when a socket that is the only player of a live room disconnects,
\* the room leaves rooms at that step, the socket is no longer mapped to a
\* room and no forfeit timer is started for it.
LoneDisconnectRemovesRoom ==
  [][\A s \in Sockets :
       Disconnect(s) =>
         \A c \in RoomsOf(s) :
           SocketsOf(R(c)) = {s} =>
             /\ ~Has(rooms', c)
             /\ ~Has(playerToRoom', s)
             /\ ~Has(disconnectedPlayers', s)]_vars

\* The Room objects rooms holds are the same, with the same contents.
LiveRoomsUnchanged ==
  /\ rooms' = rooms
  /\ \A c \in DOMAIN rooms : heap'[rooms'[c]] = R(c)

\* C12: a disconnect that starts a forfeit timer changes no room.  When the
\* socket then sends reconnect-to-room with the code of its room (in any
\* spelling) while the timer is pending and rooms still holds the room, the
\* timer is removed, so that no forfeit of the socket can follow, the other
\* player of the room, if there is one, is sent opponent-reconnected, the
\* socket is sent game-state with the phase and the turn-holder of the room
\* and its own board and fleet, and no room changes.
ReconnectCancelsForfeit ==
  [][\A s \in Sockets :
       /\ (Disconnect(s) /\ Has(disconnectedPlayers', s)) => LiveRoomsUnchanged
       /\ \A codeIn \in ReconnectInputs \cup RoomCodeInputs :
            (/\ ReconnectToRoom(s, codeIn)
             /\ Has(disconnectedPlayers, s)
             /\ TimerRoomLive(s)
             /\ toUpperCase(codeIn) = disconnectedPlayers[s].roomCode)
            => LET room == heap[disconnectedPlayers[s].room]
                   j == getOpponent(room, s)
                   k == FindPlayer(room, s)
               IN /\ ~Has(disconnectedPlayers', s)
                  /\ LiveRoomsUnchanged
                  /\ playerToRoom' = playerToRoom
                  /\ j # 0 => Sent(emitted', room.players[j].socketId,
                                   "opponent-reconnected")
                  /\ k # 0 => \E i \in 1 .. Len(emitted') :
                                emitted'[i] = GameState(s, room, room.players[k])
                  /\ \A i \in 1 .. Len(emitted') : emitted'[i][2] # "game-over"]_vars

\* A player of a battle came back in time: the opponent was told and the
\* player was sent the state of the battle, shots fired included.
ReconnectCancelsForfeitWitness ==
  \E s \in Sockets :
    /\ Len(emitted) = 2
    /\ emitted[1][2] = "opponent-reconnected"
    /\ emitted[2][1] = s
    /\ emitted[2][2] = "game-state"
    /\ emitted[2][3].phase = "battle"
    /\ emitted[2][3].yourBoard.hit # {}
    /\ ~Has(disconnectedPlayers, s)
    /\ s \in connected

\* C13: at a sweep a room leaves rooms if and only if its last activity is
\* older than the idle window.  Every player of a room that leaves is sent
\* room-closed and is no longer mapped to a room; a room that stays is
\* unchanged.
SweepRemovesExactlyIdleRooms ==
  [][CheckIdleRooms =>
       \A c \in DOMAIN rooms :
         IF now - R(c).lastActivity > IDLE_TIMEOUT_MS
         THEN /\ ~Has(rooms', c)
              /\ \A p \in SocketsOf(R(c)) :
                   /\ \E i \in 1 .. Len(emitted') :
                        emitted'[i] =
                          Ev(p, "room-closed",
                             [reason |-> "Room was idle for 10 minutes"])
                   /\ ~Has(playerToRoom', p)
         ELSE /\ Has(rooms', c)
              /\ heap'[rooms'[c]] = R(c)]_vars

\* A sweep has closed a room of two players, and the room is gone.
SweepRemovesExactlyIdleRoomsWitness ==
  /\ Len(emitted) = 2
  /\ emitted[1][2] = "room-closed"
  /\ emitted[2][2] = "room-closed"
  /\ emitted[1][1] # emitted[2][1]
  /\ rooms = EmptyMap
  /\ playerToRoom = EmptyMap

---------------------------------------------------------------------------
(* Properties of create-room and join-room, and of rooms side by side *)

AllDrawInputs == DrawInputs \cup RoomDrawInputs

\* C14: create-room takes the first code drawn that is the key of no room;
\* it adds a new room in waiting under that code, with the creator as its
\* only player, and leaves every room that rooms held as it was.  After
\* every step each room is held under its own code and no two codes hold
\* the same Room object.
CreateRoomTakesFreeCode ==
  [][/\ \A s \in Sockets, draws \in AllDrawInputs :
          CreateRoom(s, draws) =>
            LET free == {i \in 1 .. Len(draws) : ~Has(rooms, draws[i])}
                code == draws[Min(free)]
            IN /\ free # {}
               /\ DOMAIN rooms' = DOMAIN rooms \cup {code}
               /\ \A c \in DOMAIN rooms :
                    rooms'[c] = rooms[c] /\ heap'[rooms'[c]] = R(c)
               /\ heap'[rooms'[code]] = NewRoom(code, createPlayer(s))
               /\ emitted' = << Ev(s, "room-created", [code |-> code]) >>
     /\ \A c \in DOMAIN rooms' :
          /\ heap'[rooms'[c]].code = c
          /\ \A d \in DOMAIN rooms' : rooms'[c] = rooms'[d] => c = d]_vars

\* A room was created under the second code drawn, the first being in use.
CreateRoomTakesFreeCodeWitness ==
  /\ DOMAIN rooms = {"AAAAAA", "BBBBBB"}
  /\ \E s \in Sockets : emitted = << Ev(s, "room-created", [code |-> "BBBBBB"]) >>
  /\ Len(R("AAAAAA").players) = 2

AllCodeInputs == CodeInputs \cup RoomCodeInputs

\* The sockets an event sent to a code reaches: the sockets that joined it.
MembersOf(code) == {m[1] : m \in {n \in ioRooms' : n[2] = code}}

JoinRoomOutcomeApartFromDelivery ==
  [][\A s \in Sockets, codeIn \in AllCodeInputs \ {""} :
       JoinRoom(s, codeIn) =>
         LET code == toUpperCase(codeIn)
         IN IF ~Has(rooms, code)
            THEN /\ emitted' = << ErrorEv(s, "Invalid room code") >>
                 /\ UNCHANGED <<rooms, heap, playerToRoom>>
            ELSE IF Len(R(code).players) >= 2
            THEN /\ emitted' = << ErrorEv(s, "Room is full") >>
                 /\ UNCHANGED <<rooms, heap, playerToRoom>>
            ELSE /\ Has(rooms', code)
                 /\ heap'[rooms'[code]].players =
                      Append(R(code).players, createPlayer(s))
                 /\ Len(heap'[rooms'[code]].players) = 2
                 /\ heap'[rooms'[code]].phase = "placement"
                 /\ \E i \in 1 .. Len(emitted') :
                      emitted'[i] = Ev(code, "phase:placement", NoData)]_vars

\* Room d stays as it is: it keeps its code and its Room object, and every
\* session of d that the socket map routes to d is still routed to d.
RoomKept(d) ==
  /\ Has(rooms', d)
  /\ heap'[rooms'[d]] = R(d)
  /\ \A p \in SocketsOf(R(d)) :
       (Has(playerToRoom, p) /\ playerToRoom[p] = d)
       => (Has(playerToRoom', p) /\ playerToRoom'[p] = d)

OthersKept(concerned) == \A d \in DOMAIN rooms \ concerned : RoomKept(d)

\* C16: a request or a timer that concerns one room changes no other room
\* and no socket map entry of a session of another room: create-room
\* concerns the room it creates, join-room and reconnect-to-room the room
\* of the code sent, a disconnect the room the socket is mapped to, a
\* forfeit timer the room it was started for, a sweep the idle rooms.
RoomsIndependent ==
  [][/\ \A s \in Sockets :
          /\ \A draws \in AllDrawInputs :
               CreateRoom(s, draws) => OthersKept({generateRoomCode(draws)})
          /\ \A codeIn \in AllCodeInputs \ {""} :
               /\ JoinRoom(s, codeIn) => OthersKept({toUpperCase(codeIn)})
               /\ ReconnectToRoom(s, codeIn) => OthersKept({toUpperCase(codeIn)})
          /\ Disconnect(s) =>
               OthersKept(IF Has(playerToRoom, s) THEN {playerToRoom[s]} ELSE {})
          /\ ForfeitTimeout(s) => OthersKept({disconnectedPlayers[s].roomCode})
     /\ CheckIdleRooms => OthersKept(IdleRooms)]_vars

\* Every socket is a session of at most one room and mapped to it.
OneRoomEach ==
  \A s \in Sockets :
    /\ Cardinality(RoomsOf(s)) <= 1
    /\ \A c \in RoomsOf(s) : Has(playerToRoom, s) /\ playerToRoom[s] = c

\* The same for the steps that begin and end with every socket a session of
\* at most one room.
RoomsIndependentOneRoomEach ==
  [][(OneRoomEach /\ OneRoomEach') =>
     /\ \A s \in Sockets :
          /\ \A draws \in AllDrawInputs :
               CreateRoom(s, draws) => OthersKept({generateRoomCode(draws)})
          /\ \A codeIn \in AllCodeInputs \ {""} :
               /\ JoinRoom(s, codeIn) => OthersKept({toUpperCase(codeIn)})
               /\ ReconnectToRoom(s, codeIn) => OthersKept({toUpperCase(codeIn)})
          /\ Disconnect(s) =>
               OthersKept(IF Has(playerToRoom, s) THEN {playerToRoom[s]} ELSE {})
          /\ ForfeitTimeout(s) => OthersKept({disconnectedPlayers[s].roomCode})
     /\ CheckIdleRooms => OthersKept(IdleRooms)]_vars

---------------------------------------------------------------------------
(* Properties of the forfeit timers of rooms that are gone *)

\* C17: a forfeit timer fires only while rooms still holds the room it was
\* started for: the timer of a room that the sweep or a teardown removed
\* does not fire, so it sends no game-over and changes or deletes no room.
NoForfeitAfterRoomRemoved ==
  [][\A s \in Sockets : ForfeitTimeout(s) => TimerRoomLive(s)]_vars

---------------------------------------------------------------------------
(* Properties of placeShip *)

OnBoard(row, col) ==
  /\ 0 <= row /\ row <= BOARD_SIZE - 1
  /\ 0 <= col /\ col <= BOARD_SIZE - 1

\* The last cell of a ship along its axis lies past the edge of the board.
PastEdge(size, row, col, orientation) ==
  \/ orientation = "vertical" /\ row + size - 1 > BOARD_SIZE - 1
  \/ orientation = "horizontal" /\ col + size - 1 > BOARD_SIZE - 1

\* Some cell of the path of the ship carries a ship.
Occupied(board, size, row, col, orientation) ==
  \E i \in 0 .. size - 1 :
    (IF orientation = "vertical" THEN <<row + i, col>> ELSE <<row, col + i>>)
      \in DOMAIN board.ship

\* What the order of the checks makes of a placement: the error of the
\* first check that fails, "" if none fails.
FirstFailure(board, size, row, col, orientation) ==
  IF ~OnBoard(row, col) THEN "Starting position is out of bounds"
  ELSE IF PastEdge(size, row, col, orientation)
  THEN "Ship extends beyond board boundaries"
  ELSE IF Occupied(board, size, row, col, orientation)
  THEN "Ship overlaps with another ship"
  ELSE ""

\* C18: placeShip answers a start cell off the board with the out-of-bounds
\* error; else a ship whose last cell along its axis lies past row or
\* column 9 with the boundary error; else a path with an occupied cell with
\* the overlap error; else it succeeds.
PlaceShipFirstFailureDecides ==
  [][LET call == lastCall'
     IN (/\ call.op = "placeShip"
         /\ PlaceShipCall(IndexOf(SHIPS, call.ship), call.row, call.col,
                          call.orientation))
        => LET failure == FirstFailure(localBoard, call.ship.size, call.row,
                                       call.col, call.orientation)
           IN IF failure = "" THEN call.value.valid
              ELSE ~call.value.valid /\ call.value.error = failure]_vars

\* A ship that runs past the edge over an occupied cell was refused for the
\* edge.
PlaceShipFirstFailureDecidesWitness ==
  /\ lastCall.op = "placeShip"
  /\ OnBoard(lastCall.row, lastCall.col)
  /\ PastEdge(lastCall.ship.size, lastCall.row, lastCall.col, lastCall.orientation)
  /\ Occupied(localBoard, lastCall.ship.size, lastCall.row, lastCall.col,
              lastCall.orientation)
  /\ ~lastCall.value.valid
  /\ lastCall.value.error = "Ship extends beyond board boundaries"

\* The cells of the grid.
Grid == (0 .. BOARD_SIZE - 1) \X (0 .. BOARD_SIZE - 1)

\* The path of a ship: its cells from the start cell on, by increasing row
\* if it is vertical and by increasing column if it is horizontal.
PathOf(size, row, col, orientation) ==
  [i \in 1 .. size |->
     IF orientation = "vertical" THEN <<row + i - 1, col>> ELSE <<row, col + i - 1>>]

---------------------------------------------------------------------------
(* Properties of a fleet placed ship by ship *)

\* The ships of the list that hold the cell and whose id the cell carries.
OwnersOf(board, ships, c) ==
  {i \in 1 .. Len(ships) :
     /\ \E j \in 1 .. Len(ships[i].cells) : ships[i].cells[j] = c
     /\ board.ship[c] = ships[i].id}

\* The number of cells of the ships of SHIPS from ship i on.
RECURSIVE FleetCells(_)
FleetCells(i) == IF i > Len(SHIPS) THEN 0 ELSE SHIPS[i].size + FleetCells(i + 1)

\* One ship of each kind of SHIPS on the board, each occupied cell the cell
\* of exactly one of them, 17 cells in all.
CompleteFleet(board, ships) ==
  /\ Len(ships) = Len(SHIPS)
  /\ \A i \in 1 .. Len(SHIPS) :
       ships[i].name = SHIPS[i].name /\ ships[i].size = SHIPS[i].size
  /\ FleetCells(1) = 17
  /\ Cardinality(DOMAIN board.ship) = 17
  /\ \A c \in DOMAIN board.ship : Cardinality(OwnersOf(board, ships, c)) = 1

\* C20: once the five ships of SHIPS are placed on a board that was empty,
\* 17 cells are occupied and each of them is the cell of exactly one ship;
\* what placeShipsRandomly returns is such a fleet, one ship of each kind,
\* also when it gave a ship up after 100 tries and started again.
FleetOccupies17Cells ==
  /\ Len(localShips) = Len(SHIPS) => CompleteFleet(localBoard, localShips)
  /\ lastCall.op = "return" =>
       CompleteFleet(lastCall.value.board, lastCall.value.ships)

\* placeShipsRandomly has returned a fleet from a call of itself.
FleetOccupies17CellsWitness ==
  /\ lastCall.op = "return"
  /\ restarted
  /\ Len(lastCall.value.ships) = Len(SHIPS)

---------------------------------------------------------------------------
(* Properties of resolveShot and of the shots the coordinator resolves *)

\* The player s fires at: the opponent of s in the room s is mapped to.
TargetOf(s) ==
  LET room == R(playerToRoom[s])
  IN room.players[getOpponent(room, s)]

\* s holds the turn of a battle against an opponent.
FiresAtOpponent(s) ==
  MayFire(s) /\ getOpponent(R(playerToRoom[s]), s) # 0

\* C21: a shot of the turn-holder at a cell of the opponent's board that was
\* fired at before is resolved as already fired, with the board and the
\* ships that were passed in, and resolving it again gives the same; the
\* firer is sent one error and nothing else is sent; the players of the
\* room, with their boards and fleets, its phase and its turn-holder stay
\* as they were.
RepeatedShotHasNoEffect ==
  [][\A s \in Sockets, cell \in AllFireInputs :
       (/\ FiresAtOpponent(s)
        /\ cell \in TargetOf(s).board.hit
        /\ Fire(s, cell[1], cell[2]))
       => LET c == playerToRoom[s]
              target == TargetOf(s)
              shot == resolveShot(target.board, target.ships, cell[1], cell[2])
          IN /\ ~shot.threw
             /\ shot.result.alreadyFired
             /\ ~shot.result.hit /\ ~shot.result.sunk
             /\ shot.board = target.board
             /\ shot.ships = target.ships
             /\ resolveShot(shot.board, shot.ships, cell[1], cell[2]) = shot
             /\ emitted' = << ErrorEv(s, "Already fired at this cell") >>
             /\ Has(rooms', c)
             /\ heap'[rooms'[c]].players = R(c).players
             /\ heap'[rooms'[c]].phase = R(c).phase
             /\ heap'[rooms'[c]].currentTurn = R(c).currentTurn
             /\ UNCHANGED <<rooms, playerToRoom, disconnectedPlayers>>]_vars

\* The turn-holder fired at a cell that was a hit before and was refused.
RepeatedShotHasNoEffectWitness ==
  \E s \in Sockets :
    /\ emitted = << ErrorEv(s, "Already fired at this cell") >>
    /\ FiresAtOpponent(s)
    /\ \E cell \in TargetOf(s).board.hit : cell \in DOMAIN TargetOf(s).board.ship

\* Every cell of the ship was fired at.
AllTargeted(board, ship) ==
  \A i \in 1 .. Len(ship.cells) : ship.cells[i] \in board.hit

\* The ships of the list that lie on the cell.
ShipsOn(ships, cell) ==
  {i \in 1 .. Len(ships) : \E k \in 1 .. Len(ships[i].cells) : ships[i].cells[k] = cell}

\* In every room each ship of each player is sunk if and only if all its
\* cells were fired at.
SunkIffAllTargeted ==
  \A c \in DOMAIN rooms :
    \A j \in 1 .. Len(R(c).players) :
      LET p == R(c).players[j]
      IN \A i \in 1 .. Len(p.ships) :
           p.ships[i].sunk <=> AllTargeted(p.board, p.ships[i])

\* C22: after every step each ship is sunk if and only if all its cells were
\* fired at.  A shot accepted on a board adds one cell to the cells fired
\* at; it reports sunk exactly if that cell was the last cell not yet fired
\* at of a ship, it keeps the ships' cells, and it leaves every ship sunk
\* that was sunk.
SunkExactlyAtLastCell ==
  [][/\ SunkIffAllTargeted'
     /\ \A c \in DOMAIN rooms :
          \A j \in 1 .. Len(R(c).players) :
            ShotAt(c, j) =>
              LET before == R(c).players[j]
                  after == heap'[rooms'[c]].players[j]
                  new == after.board.hit \ before.board.hit
                  completed ==
                    {i \in 1 .. Len(before.ships) :
                       /\ ~AllTargeted(before.board, before.ships[i])
                       /\ AllTargeted(after.board, before.ships[i])}
              IN /\ Cardinality(new) = 1
                 /\ before.board.hit \subseteq after.board.hit
                 /\ Len(after.ships) = Len(before.ships)
                 /\ \A i \in 1 .. Len(before.ships) :
                      /\ after.ships[i].cells = before.ships[i].cells
                      /\ after.ships[i].id = before.ships[i].id
                      /\ before.ships[i].sunk => after.ships[i].sunk
                      /\ (after.ships[i].sunk /\ ~before.ships[i].sunk)
                           <=> i \in completed
                 /\ \A i \in completed : \A x \in new : i \in ShipsOn(before.ships, x)
                 /\ \E e \in 1 .. Len(emitted') :
                      /\ emitted'[e][2] = "shot-result"
                      /\ emitted'[e][3].sunk <=> completed # {}]_vars

\* The second cell of a ship of two cells was hit and the shot reported the
\* ship sunk, while another ship of the fleet is hit and afloat.
SunkExactlyAtLastCellWitness ==
  /\ Len(emitted) >= 1
  /\ emitted[1][2] = "shot-result"
  /\ emitted[1][3].sunk
  /\ \E c \in DOMAIN rooms, j \in 1 .. 2 :
       /\ Len(R(c).players) = 2
       /\ \E i \in 1 .. Len(R(c).players[j].ships) :
            LET ship == R(c).players[j].ships[i]
            IN /\ ship.sunk /\ Len(ship.cells) = 2
               /\ <<emitted[1][3].row, emitted[1][3].col>> = ship.cells[1]
       /\ \E i \in 1 .. Len(R(c).players[j].ships) :
            LET ship == R(c).players[j].ships[i]
            IN /\ ~ship.sunk
               /\ \E k \in 1 .. Len(ship.cells) : ship.cells[k] \in R(c).players[j].board.hit

---------------------------------------------------------------------------
(* Properties of the strategy of the AI *)

\* The history has an entry for each of the cells of the board.
CoversBoard(hist) == Grid \subseteq FiredPositions(hist)

\* C23: under the callers of the tests, whose history grows from call to
\* call, a call of getNextShot with a history that does not cover the 100
\* cells returns a cell of the board that no entry of the history names, and
\* a call with a history that covers them throws 'No available cells to
\* fire at' and returns no cell.
NextShotNotInHistory ==
  lastCall.op = "getNextShot" =>
    IF CoversBoard(shotHistory)
    THEN /\ lastCall.threw
         /\ lastCall.message = "No available cells to fire at"
         /\ lastCall.cell = << >>
    ELSE /\ ~lastCall.threw
         /\ lastCall.cell \in Grid
         /\ lastCall.cell \notin FiredPositions(shotHistory)

\* C23 witness: the history has a hit on (5, 5) and misses on every other
\* cell but (5, 6), and the call returns (5, 6), the one cell left.
NextShotNotInHistoryWitness ==
  /\ lastCall.op = "getNextShot"
  /\ Len(shotHistory) = 99
  /\ shotHistory[1] = Hit(5, 5)
  /\ ~lastCall.threw
  /\ lastCall.cell = <<5, 6>>

\* C23, the other case: a history that covers the board and a call that
\* throws.
ExhaustedWitness ==
  /\ lastCall.op = "getNextShot"
  /\ CoversBoard(shotHistory)
  /\ lastCall.threw

\* The last entry of the history is a hit that did not sink its ship.
LastIsOpenHit(hist) ==
  /\ Len(hist) > 0
  /\ hist[Len(hist)].hit
  /\ ~hist[Len(hist)].sunk

\* The up, down, left and right neighbours of the last entry of the history
\* that are on the board and that no entry of the history names.
OpenNeighbours(hist) ==
  LET last == hist[Len(hist)]
  IN {c \in Grid \ FiredPositions(hist) :
        \E d \in 1 .. Len(Directions) :
          c = <<last.row + Directions[d][1], last.col + Directions[d][2]>>}

\* The call returns a neighbour of the last hit, or, where that hit has no
\* open neighbour, a cell of the board that the history does not name.
ShootsNextToLastHit(hist, call) ==
  IF OpenNeighbours(hist) # {}
  THEN ~call.threw /\ call.cell \in OpenNeighbours(hist)
  ELSE ~CoversBoard(hist) =>
         ~call.threw /\ call.cell \in Grid \ FiredPositions(hist)

OneNewOpenHit(st, hist) ==
  /\ st.lastProcessedShotCount < Len(hist)
  /\ \A i \in st.lastProcessedShotCount + 1 .. Len(hist) - 1 :
       ~(hist[i].hit /\ ~hist[i].sunk)

\* The history has grown by one miss, and the call returns the first of the
\* queued candidates that the history does not name and keeps the ones
\* queued after it.
FirstInFirstOut ==
  (/\ lastCall'.op = "getNextShot"
   /\ Len(shotHistory') = Len(shotHistory) + 1
   /\ aiState.lastProcessedShotCount = Len(shotHistory)
   /\ ~shotHistory'[Len(shotHistory')].hit)
  => LET pending == SelectSeq(aiState.targetQueue,
                              LAMBDA c : c \notin FiredPositions(shotHistory'))
     IN Len(pending) > 0 =>
          /\ ~lastCall'.threw
          /\ lastCall'.cell = Head(pending)
          /\ aiState'.targetQueue = Tail(pending)

CornerHitWitness ==
  /\ lastCall.op = "getNextShot"
  /\ shotHistory = << Hit(0, 0) >>
  /\ lastCall.cell = <<1, 0>>

\* C24, the fallback: the last entry is a hit on (5, 5) whose four
\* neighbours are in the history, and the call returns the last cell of the
\* board.
FallbackWitness ==
  /\ lastCall.op = "getNextShot"
  /\ Len(shotHistory) = 5
  /\ shotHistory[5] = Hit(5, 5)
  /\ lastCall.cell = <<9, 9>>

\* The cells of the board that the history does not name, row by row.
Untargeted(hist) == SelectSeq(AllCells, LAMBDA c : c \notin FiredPositions(hist))

\* The call drew its cell among all the cells the history does not name: the
\* cell at the place that the value of Math.random() points at.
DrawnAmongUntargeted(hist, call) ==
  IF Len(Untargeted(hist)) = 0 THEN call.threw
  ELSE /\ ~call.threw
       /\ call.cell =
            Untargeted(hist)[(call.rand[1] * Len(Untargeted(hist)))
                               \div call.rand[2] + 1]

\* C25: after a call of getNextShot with a history whose last entry has
\* sunk = true the strategy is in hunt mode with an empty queue and the cell
\* returned was drawn among all the cells the history does not name; after a
\* call with a history of misses only it is in hunt mode with an empty
\* queue.
SunkReturnsToHunt ==
  lastCall.op = "getNextShot" =>
    /\ (Len(shotHistory) > 0 /\ shotHistory[Len(shotHistory)].sunk)
         => /\ aiState.mode = "hunt"
            /\ aiState.targetQueue = << >>
            /\ DrawnAmongUntargeted(shotHistory, lastCall)
    /\ (\A i \in 1 .. Len(shotHistory) : ~shotHistory[i].hit)
         => /\ aiState.mode = "hunt"
            /\ aiState.targetQueue = << >>

\* C25 witness: three hits in a row and a fourth that sinks the ship; the
\* strategy is in hunt mode and the call returns the last cell of the board.
SunkReturnsToHuntWitness ==
  /\ lastCall.op = "getNextShot"
  /\ shotHistory = << Hit(5, 5), Hit(5, 6), Hit(5, 7), Sunk(5, 8) >>
  /\ aiState.mode = "hunt"
  /\ lastCall.cell = <<9, 9>>

\* C25, the misses: a call with a history of 99 misses.
MissesKeepHuntWitness ==
  /\ lastCall.op = "getNextShot"
  /\ Len(shotHistory) = 99
  /\ \A i \in 1 .. 99 : ~shotHistory[i].hit
  /\ aiState.mode = "hunt"

---------------------------------------------------------------------------
(* Properties of the games against the AI *)

SameHistoryOtherFleetWitness ==
  /\ lastCall.op = "aiShot"
  /\ shotHistory = << Hit(0, 0) >>
  /\ localShips[5].name = "Destroyer"
  /\ localShips[5].cells[1] = <<0, 0>>

\* So far in the game neither getNextShot nor resolveShot threw, the AI has
\* fired at most 100 shots, each at a cell of its own, none reported as
\* fired at before, and the cells of the history are the cells marked on
\* the board.
AIGameSafe ==
  /\ lastCall.op # "threw"
  /\ Len(shotHistory) <= BOARD_SIZE * BOARD_SIZE
  /\ Cardinality(FiredPositions(shotHistory)) = Len(shotHistory)
  /\ lastCall.op = "aiShot" => ~lastCall.result.alreadyFired
  /\ lastCall.op \in {"start", "aiShot"}
       => FiredPositions(shotHistory) = localBoard.hit

\* C27: in a game in which each shot of the AI is resolved on the board of
\* a complete fleet and its outcome appended to the history, no call
\* throws, no cell is fired at twice, the history never has more than 100
\* shots, and every game that starts comes to a state where all the ships
\* are sunk.
AIGameEndsWithAllSunk ==
  /\ []AIGameSafe
  /\ (lastCall.op = "start") ~> checkWin(localShips)

\* C27 witness: a game won with the hundredth shot, on the second cell of
\* the Destroyer in the last corner of the board.
AIGameEndsWithAllSunkWitness ==
  /\ lastCall.op = "aiShot"
  /\ checkWin(localShips)
  /\ Len(shotHistory) = BOARD_SIZE * BOARD_SIZE
  /\ lastCall.cell = <<9, 9>>

\* C27, a short game: won with fewer than 40 shots.
ShortGameWitness ==
  /\ lastCall.op = "aiShot"
  /\ checkWin(localShips)
  /\ Len(shotHistory) < 40

---------------------------------------------------------------------------
(* Properties of the fire handler of the coordinator *)

\* C28: a shot-result and an opponent-shot carry the name of a ship only if
\* they report the ship sunk; a hit that does not sink carries hit = true,
\* sunk = false and no name.
ShipNamedOnlyWhenSunk ==
  \A i \in 1 .. Len(emitted) :
    emitted[i][2] \in {"shot-result", "opponent-shot"}
      => (emitted[i][3].shipName # NoName => emitted[i][3].sunk)

\* What the fire handler sends when resolveShot, called with coordinates off
\* the board, throws: the message of the exception.
ResolverRefusal(s) == << ErrorEv(s, "Shot coordinates are out of bounds") >>

\* C29: a fire request of the turn-holder with a row or a column outside
\* 0..9 is answered with one error, which is not the exception of
\* resolveShot, for resolveShot is not called with such coordinates; the
\* players of the room, with their boards and fleets, and the turn-holder
\* stay as they were.
OutOfRangeShotNotResolved ==
  [][\A s \in Sockets, cell \in AllFireInputs :
       (/\ ~OnBoard(cell[1], cell[2])
        /\ FiresAtOpponent(s)
        /\ Fire(s, cell[1], cell[2]))
       => LET c == playerToRoom[s]
          IN /\ Len(emitted') = 1
             /\ emitted'[1][1] = s
             /\ emitted'[1][2] = "error"
             /\ emitted' # ResolverRefusal(s)
             /\ Has(rooms', c)
             /\ heap'[rooms'[c]].players = R(c).players
             /\ heap'[rooms'[c]].phase = R(c).phase
             /\ heap'[rooms'[c]].currentTurn = R(c).currentTurn]_vars

\* C29, what holds of such a request: one error to the firer, and the
\* players, the phase and the turn-holder as they were.
OutOfRangeShotChangesNoBoard ==
  [][\A s \in Sockets, cell \in AllFireInputs :
       (/\ ~OnBoard(cell[1], cell[2])
        /\ FiresAtOpponent(s)
        /\ Fire(s, cell[1], cell[2]))
       => LET c == playerToRoom[s]
          IN /\ Len(emitted') = 1
             /\ emitted'[1][1] = s
             /\ emitted'[1][2] = "error"
             /\ Has(rooms', c)
             /\ heap'[rooms'[c]].players = R(c).players
             /\ heap'[rooms'[c]].phase = R(c).phase
             /\ heap'[rooms'[c]].currentTurn = R(c).currentTurn]_vars

---------------------------------------------------------------------------
(* Properties of the last activity of a room *)

\* The step answered a request with one error and nothing else.
Rejected == Len(emitted') = 1 /\ emitted'[1][2] = "error"

\* The rooms that are kept by the step, with their players.
KeptRooms ==
  {c \in DOMAIN rooms \cap DOMAIN rooms' :
     Len(heap'[rooms'[c]].players) >= Len(R(c).players)}

\* The room of the player the step sent an event of the given name to.
RoomsSent(name) ==
  {c \in DOMAIN rooms' :
     \E i \in 1 .. Len(emitted'), j \in 1 .. Len(heap'[rooms'[c]].players) :
       /\ emitted'[i][2] = name
       /\ emitted'[i][1] = heap'[rooms'[c]].players[j].socketId}

\* C30: a step that rejects a request leaves the last activity of every
\* room as it was, and a step that joins a room, confirms a placement,
\* resolves a shot or reconnects a player to a room leaves the last activity
\* of that room at the time of the step.
ActivityRefreshedBySuccessOnly ==
  [][/\ Rejected =>
          \A c \in KeptRooms :
            heap'[rooms'[c]].lastActivity = R(c).lastActivity
     /\ \A c \in RoomsSent("room-joined") \cup RoomsSent("placement-confirmed")
               \cup RoomsSent("shot-result") \cup RoomsSent("game-state") :
          heap'[rooms'[c]].lastActivity = now]_vars

\* The errors the fire handler sends after it refreshed the last activity.
ResolverErrors ==
  {"Already fired at this cell", "Shot coordinates are out of bounds",
   "Ship not found in ships array"}

\* C30, what holds: a request rejected with another error than those of the
\* resolver leaves the last activity of every room as it was, and a join,
\* a confirmed placement and a resolved shot leave the last activity of
\* their room at the time of the step.
ActivityRefreshedByJoinPlaceFire ==
  [][/\ (Rejected /\ emitted'[1][3].message \notin ResolverErrors) =>
          \A c \in KeptRooms :
            heap'[rooms'[c]].lastActivity = R(c).lastActivity
     /\ \A c \in RoomsSent("room-joined") \cup RoomsSent("placement-confirmed")
               \cup RoomsSent("shot-result") :
          heap'[rooms'[c]].lastActivity = now]_vars

\* C30, the rejected shots: a shot refused as already fired or as off the
\* board leaves the last activity of the room as it was.
RejectedShotKeepsActivity ==
  [][(Rejected /\ emitted'[1][3].message \in ResolverErrors) =>
        \A c \in KeptRooms :
          heap'[rooms'[c]].lastActivity = R(c).lastActivity]_vars

\* C30, the reconnect: a reconnect that sends the game state leaves the last
\* activity of the room at the time of the step.
ReconnectRefreshesActivity ==
  [][\A c \in RoomsSent("game-state") :
        heap'[rooms'[c]].lastActivity = now]_vars

---------------------------------------------------------------------------
(* Invariants of the rooms of the coordinator *)

\* The number of players of the room that are ready.
ReadyCount(room) ==
  Cardinality({i \in 1 .. Len(room.players) : room.players[i].ready})

\* C31: a room that rooms holds has one player while it is waiting, two
\* players while it is in placement or in battle, not both of them ready in
\* placement and both of them ready in battle, and never more than two
\* players.
PhaseFixesSessions ==
  \A c \in DOMAIN rooms :
    /\ Len(R(c).players) <= 2
    /\ R(c).phase = "waiting" => Len(R(c).players) = 1
    /\ R(c).phase \in {"placement", "battle"} => Len(R(c).players) = 2
    /\ R(c).phase = "placement" => ReadyCount(R(c)) < 2
    /\ R(c).phase = "battle" => ReadyCount(R(c)) = 2

\* C31 witness: a room in placement with one of its two players ready.
PhaseFixesSessionsWitness ==
  \E c \in DOMAIN rooms :
    /\ R(c).phase = "placement"
    /\ Len(R(c).players) = 2
    /\ ReadyCount(R(c)) = 1

\* C31, the battle: a room in battle, its two players ready, one of them
\* waited for after a disconnect.
BattleOfTwoWitness ==
  \E c \in DOMAIN rooms :
    /\ R(c).phase = "battle"
    /\ ReadyCount(R(c)) = 2
    /\ DOMAIN disconnectedPlayers # {}

\* The ids of the ships of the player are pairwise distinct, and every
\* occupied cell of the board carries the id of exactly one ship, which
\* lists the cell.
FleetPairsWithBoard(player) ==
  /\ \A i, j \in 1 .. Len(player.ships) :
       i # j => player.ships[i].id # player.ships[j].id
  /\ \A c \in DOMAIN player.board.ship :
       /\ Cardinality({i \in 1 .. Len(player.ships) :
                         player.ships[i].id = player.board.ship[c]}) = 1
       /\ Cardinality(OwnersOf(player.board, player.ships, c)) = 1

\* C32: for every player of every room the ids of the ships are pairwise
\* distinct and every occupied cell of the board carries the id of exactly
\* one ship of the fleet, which lists the cell; and no handler sends the
\* error 'Ship not found in ships array'.
CellsReferToOneShip ==
  /\ \A c \in DOMAIN rooms : \A j \in 1 .. Len(R(c).players) :
       FleetPairsWithBoard(R(c).players[j])
  /\ \A i \in 1 .. Len(emitted) :
       emitted[i] # ErrorEv(emitted[i][1], "Ship not found in ships array")

\* C32 witness: a shot hit a cell of a fleet of five ships, and the ship of
\* that cell was found.
CellsReferToOneShipWitness ==
  /\ Len(emitted) >= 1
  /\ emitted[1][2] = "shot-result"
  /\ emitted[1][3].hit
  /\ \E c \in DOMAIN rooms : \E j \in 1 .. Len(R(c).players) :
       /\ Len(R(c).players[j].ships) = 5
       /\ <<emitted[1][3].row, emitted[1][3].col>> \in R(c).players[j].board.hit
       /\ <<emitted[1][3].row, emitted[1][3].col>>
            \in DOMAIN R(c).players[j].board.ship

\* The cell is an up, down, left or right neighbour of the cell of the entry.
NextTo(cell, entry) ==
  \E d \in 1 .. Len(Directions) :
    cell = <<entry.row + Directions[d][1], entry.col + Directions[d][2]>>

\* C33: under a caller whose history grows from call to call, after a call
\* of getNextShot the processed count is the length of the history given;
\* the queue holds no cell twice and only cells of the board; a cell it
\* holds was in the queue before the call or is a neighbour of a hit without
\* sunk among the entries added since the call before, so that no entry is
\* processed twice; and the cell returned is not in the history.
HistoryProcessedOnce ==
  [][lastCall'.op = "getNextShot" =>
       LET queue == aiState'.targetQueue
       IN /\ aiState'.lastProcessedShotCount = Len(shotHistory')
          /\ \A i, j \in 1 .. Len(queue) : i # j => queue[i] # queue[j]
          /\ \A i \in 1 .. Len(queue) :
               /\ queue[i] \in Grid
               /\ \/ \E j \in 1 .. Len(aiState.targetQueue) :
                       aiState.targetQueue[j] = queue[i]
                  \/ \E j \in aiState.lastProcessedShotCount + 1
                                .. Len(shotHistory') :
                       /\ shotHistory'[j].hit /\ ~shotHistory'[j].sunk
                       /\ NextTo(queue[i], shotHistory'[j])
          /\ ~lastCall'.threw =>
               lastCall'.cell \notin FiredPositions(shotHistory')]_vars

\* C33 witness: after a call with a hit on (5, 5) and a call with a second
\* hit on (5, 6), the queue holds the four candidates left, (5, 6) dropped
\* from it and (6, 5) drawn.
HistoryProcessedOnceWitness ==
  /\ lastCall.op = "getNextShot"
  /\ shotHistory = << Hit(5, 5), Hit(5, 6) >>
  /\ lastCall.cell = <<6, 5>>
  /\ aiState.targetQueue = << <<5, 4>>, <<4, 6>>, <<6, 6>>, <<5, 7>> >>
  /\ aiState.lastProcessedShotCount = 2

---------------------------------------------------------------------------
(* Properties of a room used for more than one game *)

\* The cells the ships of the player occupy.
ShipCells(player) == DOMAIN player.board.ship

\* The room is in battle, or a board of it was fired upon, which only a
\* battle does.
HasEnteredBattle(room) ==
  \/ room.phase = "battle"
  \/ \E i \in 1 .. Len(room.players) : room.players[i].board.hit # {}

\* The sockets that are players of the room of code c before and after the
\* step.
Staying(c) ==
  {s \in Sockets : /\ FindPlayer(R(c), s) # 0
                   /\ FindPlayer(heap'[rooms'[c]], s) # 0}

\* A place-ships of a player of a room that is not in placement is answered
\* with the error 'Not in placement phase' and changes nothing.
RefusedOutsidePlacement ==
  \A s \in Sockets :
    (/\ Has(playerToRoom, s)
     /\ Has(rooms, playerToRoom[s])
     /\ R(playerToRoom[s]).phase # "placement")
    => \A placements \in RematchFleets :
         PlaceShips(s, placements) =>
           /\ emitted' = << ErrorEv(s, "Not in placement phase") >>
           /\ UNCHANGED <<rooms, heap, playerToRoom, disconnectedPlayers>>

\* C34: place-ships is refused with an error and changes nothing while the
\* room is waiting, in battle or finished, and once a room has entered
\* battle no step changes the cells that the ships of a player of the room
\* occupy.
ShipsFixedOnceInBattle ==
  [][/\ RefusedOutsidePlacement
     /\ \A c \in DOMAIN rooms \cap DOMAIN rooms' :
          HasEnteredBattle(R(c)) =>
            \A s \in Staying(c) :
              ShipCells(heap'[rooms'[c]].players[FindPlayer(heap'[rooms'[c]], s)])
                = ShipCells(R(c).players[FindPlayer(R(c), s)])]_vars

\* C34, what holds: place-ships is refused with an error and changes
\* nothing while the room is waiting, in battle or finished, and no step
\* from a room in battle or finished changes the cells that the ships of a
\* player of the room occupy.
ShipsFixedOutsidePlacement ==
  [][/\ RefusedOutsidePlacement
     /\ \A c \in DOMAIN rooms \cap DOMAIN rooms' :
          R(c).phase \in {"battle", "finished"} =>
            \A s \in Staying(c) :
              ShipCells(heap'[rooms'[c]].players[FindPlayer(heap'[rooms'[c]], s)])
                = ShipCells(R(c).players[FindPlayer(R(c), s)])]_vars

\* C34, the refusal: a place-ships was refused in a room in battle.
RefusedInBattleWitness ==
  /\ \E s \in Sockets : emitted = << ErrorEv(s, "Not in placement phase") >>
  /\ \E c \in DOMAIN rooms : R(c).phase = "battle"

---------------------------------------------------------------------------
(* Invariants of the sessions of the coordinator *)

\* C35: the players of a room have pairwise different socket ids, and in a
\* room of two players getOpponent finds an opponent for each of them.
SessionsDiffer ==
  \A c \in DOMAIN rooms :
    /\ \A i, j \in 1 .. Len(R(c).players) :
         i # j => R(c).players[i].socketId # R(c).players[j].socketId
    /\ Len(R(c).players) = 2 =>
         \A i \in 1 .. 2 : getOpponent(R(c), R(c).players[i].socketId) # 0

\* C36: every socket is a player of at most one room that rooms holds, and
\* playerToRoom maps every player of every such room to the code of that
\* room.
SessionsIndexed ==
  /\ \A s \in Sockets : Cardinality(RoomsOf(s)) <= 1
  /\ \A c \in DOMAIN rooms : \A s \in SocketsOf(R(c)) :
       Has(playerToRoom, s) /\ playerToRoom[s] = c

---------------------------------------------------------------------------
(* Properties of the winner of a room *)

\* The players of the room whose fleet is all sunk.
Defeated(room) ==
  {room.players[i].socketId : i \in {j \in 1 .. Len(room.players) :
                                       checkWin(room.players[j].ships)}}

\* The winners that the game-over of a finished room that rooms holds can
\* have named: the phase is set to finished by the shot that sinks the last
\* ship of a player, with the firer as the winner, and by a forfeit timer,
\* which removes the loser and names the opponent.  Any socket where the
\* room does not tell.
NamedWinners(room) ==
  IF Defeated(room) # {} THEN SocketsOf(room) \ Defeated(room)
  ELSE IF Len(room.players) = 1 THEN SocketsOf(room)
  ELSE Sockets

\* C37: a forfeit timer that elapses on a room that rooms holds and that is
\* finished already names in its game-over the winner that the room's
\* game-over named before.
WinnerStays ==
  [][\A s \in Sockets :
       (/\ Has(disconnectedPlayers, s)
        /\ TimerRoomLive(s)
        /\ heap[disconnectedPlayers[s].room].phase = "finished"
        /\ ForfeitTimeout(s))
       => emitted'[1][3].winner
            \in NamedWinners(heap[disconnectedPlayers[s].room])]_vars

\* C37, the case of the claim: a forfeit timer that elapses on a room
\* finished by the sinking of a fleet does not name the player of that fleet
\* as the winner.
DefeatedNeverNamedWinner ==
  [][\A s \in Sockets :
       (/\ Has(disconnectedPlayers, s)
        /\ TimerRoomLive(s)
        /\ heap[disconnectedPlayers[s].room].phase = "finished"
        /\ ForfeitTimeout(s))
       => emitted'[1][3].winner
            \notin Defeated(heap[disconnectedPlayers[s].room])]_vars

\* C38: when a step takes a room that rooms holds into battle, no cell of
\* the board of a player of the room has been fired at and no ship of a
\* player is sunk.
BattleStartsFresh ==
  [][\A c \in DOMAIN rooms \cap DOMAIN rooms' :
       (R(c).phase # "battle" /\ heap'[rooms'[c]].phase = "battle")
       => \A i \in 1 .. Len(heap'[rooms'[c]].players) :
            LET player == heap'[rooms'[c]].players[i]
            IN /\ player.board.hit = {}
               /\ \A k \in 1 .. Len(player.ships) : ~player.ships[k].sunk]_vars

---------------------------------------------------------------------------
(* Properties of a reconnect with the code of another room *)

\* The step sent an event of the given name.
StepSent(name) == \E i \in 1 .. Len(emitted') : emitted'[i][2] = name

\* s has a forfeit timer and sends reconnect-to-room with a code that is
\* not the one of the room the timer was started for.
ReconnectsElsewhere(s, codeIn) ==
  /\ Has(disconnectedPlayers, s)
  /\ toUpperCase(codeIn) # disconnectedPlayers[s].roomCode
  /\ ReconnectToRoom(s, codeIn)

\* C39: a reconnect-to-room of a socket with a forfeit timer, sent with the
\* code of another room or of no room, leaves the timer pending, sends no
\* game-state and sends opponent-reconnected to nobody.
ReconnectOnlyOwnRoom ==
  [][\A s \in Sockets, codeIn \in ReconnectInputs :
       ReconnectsElsewhere(s, codeIn) =>
         /\ Has(disconnectedPlayers', s)
         /\ ~StepSent("game-state")
         /\ ~StepSent("opponent-reconnected")]_vars

\* C39, the events: a reconnect-to-room sent with the code of another room
\* or of no room sends no game-state and sends opponent-reconnected to
\* nobody.
ReconnectElsewhereIsSilent ==
  [][\A s \in Sockets, codeIn \in ReconnectInputs :
       ReconnectsElsewhere(s, codeIn) =>
         /\ ~StepSent("game-state")
         /\ ~StepSent("opponent-reconnected")]_vars

---------------------------------------------------------------------------
(* The length of a battle *)

\* Five placements of size 0: placeShip accepts each of them with no cell.
NoCellFleet ==
  << P("Carrier", 0, 0, 0, "horizontal"), P("Battleship", 0, 0, 0, "horizontal"),
     P("Cruiser", 0, 0, 0, "horizontal"), P("Submarine", 0, 0, 0, "horizontal"),
     P("Destroyer", 0, 0, 0, "horizontal") >>

BattleFleets == {StandardFleet, NoCellFleet}

\* The cells of the board that the opponent of s in the room of s has not
\* been fired at, row by row (all the cells for a socket with no opponent).
UntargetedOf(s) ==
  IF Has(playerToRoom, s) /\ Has(rooms, playerToRoom[s])
       /\ getOpponent(heap[rooms[playerToRoom[s]]], s) # 0
  THEN LET room == heap[rooms[playerToRoom[s]]]
           opponent == room.players[getOpponent(room, s)]
       IN SelectSeq(AllCells, LAMBDA cell : cell \notin opponent.board.hit)
  ELSE AllCells

\* s fires at the first cell, row by row, it has not fired at.
FireNextCell(s) ==
  /\ UntargetedOf(s) # << >>
  /\ \E cell \in {Head(UntargetedOf(s))} : Fire(s, cell[1], cell[2])

\* The games of one room played over the whole board, with no connection
\* lost.
NextBattle ==
  \/ \E s \in Sockets, draws \in DrawInputs : CreateRoom(s, draws)
  \/ \E s \in Sockets : JoinRoom(s, "AAAAAA")
  \/ \E s \in Sockets, placements \in BattleFleets : PlaceShips(s, placements)
  \/ \E s \in Sockets : FireNextCell(s)

SpecBattle == Init /\ [][NextBattle]_vars

\* The turn-holder of a battle fires at a cell it has not fired at whenever
\* there is one.
TurnHolderFires == \E s \in Sockets : FiresAtOpponent(s) /\ FireNextCell(s)

SpecBattleFair == SpecBattle /\ WF_vars(TurnHolderFires)

\* A step that changes the fired cells of the board of a player of a room in
\* battle adds one cell of the board that was not among them.
ShotsAreNew ==
  \A c \in DOMAIN rooms \cap DOMAIN rooms' :
    R(c).phase = "battle" =>
      \A i \in 1 .. Len(R(c).players) :
        LET before == R(c).players[i].board.hit
            after == heap'[rooms'[c]].players[i].board.hit
        IN after # before =>
             \E cell \in Grid \ before : after = before \cup {cell}

\* No board has more fired cells than the board has cells.
ShotsBounded ==
  \A c \in DOMAIN rooms : \A i \in 1 .. Len(R(c).players) :
    /\ R(c).players[i].board.hit \subseteq Grid
    /\ Cardinality(R(c).players[i].board.hit) <= BOARD_SIZE * BOARD_SIZE

\* In a room in battle the turn-holder has a cell of the opponent's board
\* left that was not fired at.
NeverStuck ==
  \A c \in DOMAIN rooms :
    R(c).phase = "battle" =>
      \E s \in Sockets :
        /\ FiresAtOpponent(s)
        /\ playerToRoom[s] = c
        /\ Grid \ TargetOf(s).board.hit # {}

InBattle == \E c \in DOMAIN rooms : R(c).phase = "battle"

IsFinished == \E c \in DOMAIN rooms : R(c).phase = "finished"

\* Every ship of every player of every room has a cell.
ShipsHaveCells ==
  \A c \in DOMAIN rooms : \A i \in 1 .. Len(R(c).players) :
    \A k \in 1 .. Len(R(c).players[i].ships) :
      Len(R(c).players[i].ships[k].cells) > 0

\* C40: every accepted shot adds a cell not fired at before to the fired
\* cells of the board, no board has more than 100 fired cells, in a room in
\* battle the turn-holder always has a cell left to fire at, and under a
\* turn-holder that keeps firing at cells not fired at a room in battle
\* becomes finished.
BattleIsFinite ==
  /\ [][ShotsAreNew]_vars
  /\ [](ShotsBounded /\ NeverStuck)
  /\ (InBattle ~> IsFinished)

\* C40, what holds: the same with fleets whose ships all have a cell, and
\* the bound on the shots with every fleet.
BattleOfShipsWithCellsIsFinite ==
  /\ [][ShotsAreNew]_vars
  /\ [](ShotsBounded /\ (ShipsHaveCells => NeverStuck))
  /\ ((InBattle /\ ShipsHaveCells) ~> IsFinished)

\* C40, a battle over the whole board: a room in battle in which the board
\* of a player has all its cells fired at.
WholeBoardFiredAt ==
  \E c \in DOMAIN rooms : \E i \in 1 .. Len(R(c).players) :
    /\ R(c).phase = "battle"
    /\ R(c).players[i].board.hit = Grid

\* C40, a battle that ends: a room finished when the last ship of a standard
\* fleet was sunk.
StandardFleetSunk ==
  \E c \in DOMAIN rooms : \E i \in 1 .. Len(R(c).players) :
    /\ R(c).phase = "finished"
    /\ checkWin(R(c).players[i].ships)
    /\ Cardinality(ShipCells(R(c).players[i])) = 17

============================================================================
